---- MODULE Spec2Model ----
(***************************************************************************)
(* Model of the inference session of poly (poly-backend/src/session.rs):   *)
(* BackendSession::complete and complete_actual, with the collaborators    *)
(* they drive (tokenizer, inference state, biaser, sampler, UTF-8 buffer,  *)
(* stop-sequence matcher, memory store, stats accumulator).                *)
(*                                                                         *)
(* Text is a sequence of bytes, each byte a one-element string; "h1" and   *)
(* "h2" are the two bytes of one two-byte UTF-8 character.                 *)
(***************************************************************************)
EXTENDS Integers, Sequences, FiniteSets, TLC

(***************************************************************************)
(* Bounds of the model.                                                    *)
(***************************************************************************)
\* model.context_size(): the inference state refuses to grow to this length.
ContextSize == 5
\* Largest max_tokens a task is configured with.
MaxTokensBound == 2
\* Number of complete() calls made on the session.
MaxCalls == 2

(***************************************************************************)
(* Vocabulary and tokenizer (model.tokenizer()).                           *)
(***************************************************************************)
\* model.eot_token_id()
EotToken == 0
\* model.bot_token_id(), when the model defines one
BotToken == 1

\* vocabulary.token(id): the bytes of token id (index id + 1).
VocabTokens ==
    << <<>>, <<>>, <<"a">>, <<"b">>, <<"S">>, <<"h1">>, <<"h2">>, <<"nl">> >>

TokenIds == 0 .. (Len(VocabTokens) - 1)

Token(id) == VocabTokens[id + 1]

\* vocabulary.id(bytes): the id of the token with these bytes.
TokenIdOf(bytes) ==
    CHOOSE id \in TokenIds \ {EotToken, BotToken} : Token(id) = bytes

\* Bytes that some token of the vocabulary spells.
KnownBytes == {"a", "b", "S", "h1", "h2", "nl"}

\* tokenizer.tokenize(text, bos): the token ids of text, led by the BOS id
\* when bos is set; "fail" when a byte is in no token (TokenizationError).
Tokenizable(text) == \A i \in 1 .. Len(text) : text[i] \in KnownBytes

Tokenize(text, bos) ==
    (IF bos THEN <<BotToken>> ELSE <<>>)
        \o [i \in 1 .. Len(text) |-> TokenIdOf(<<text[i]>>)]

(***************************************************************************)
(* TokenUtf8Buffer: releases text only when the buffered bytes are valid   *)
(* UTF-8, or a valid suffix of them.                                       *)
(***************************************************************************)
ValidUtf8(s) ==
    /\ \A i \in 1 .. Len(s) : s[i] = "h1" => (i < Len(s) /\ s[i + 1] = "h2")
    /\ \A i \in 1 .. Len(s) : s[i] = "h2" => (i > 1 /\ s[i - 1] = "h1")

\* result_buffer.push(bytes): [buffer, some, output]
BufferPush(buf, bytes) ==
    LET b == buf \o bytes
        starts == {i \in 2 .. Len(b) : ValidUtf8(SubSeq(b, i, Len(b)))}
    IN  IF ValidUtf8(b)
        THEN [buffer |-> <<>>, some |-> TRUE, output |-> b]
        ELSE IF starts # {}
        THEN LET i == CHOOSE j \in starts : \A k \in starts : j <= k
             IN  [buffer |-> <<>>, some |-> TRUE, output |-> SubSeq(b, i, Len(b))]
        ELSE [buffer |-> b, some |-> FALSE, output |-> <<>>]

(***************************************************************************)
(* SequenceSet: per stop sequence the length of the matched prefix.        *)
(***************************************************************************)
\* Sequence::advance on one byte: [index, matched]
SequenceAdvance(target, index, ch) ==
    IF target[index + 1] = ch
    THEN IF index + 1 = Len(target)
         THEN [index |-> 0, matched |-> TRUE]
         ELSE [index |-> index + 1, matched |-> FALSE]
    ELSE [index |-> 0, matched |-> FALSE]

RECURSIVE SequenceRun(_, _, _, _)
\* One target over the bytes of a fragment, from byte i on.
SequenceRun(target, st, frag, i) ==
    IF i > Len(frag)
    THEN st
    ELSE LET r == SequenceAdvance(target, st.index, frag[i])
         IN  SequenceRun(target,
                         [index |-> r.index, matched |-> st.matched \/ r.matched],
                         frag, i + 1)

\* SequenceSet::advance(fragment): [state, matched]
SequenceSetAdvance(targets, state, frag) ==
    LET runs == [k \in 1 .. Len(targets) |->
                    SequenceRun(targets[k],
                                [index |-> state[k], matched |-> FALSE], frag, 1)]
    IN  [state |-> [k \in 1 .. Len(targets) |-> runs[k].index],
         matched |-> \E k \in 1 .. Len(targets) : runs[k].matched]

(***************************************************************************)
(* Biaser: bias() lists (token id, bias) pairs, advance() consumes the     *)
(* chosen token.  The JSON-schema biaser is a cursor into the grammar of   *)
(* the schema; the schema here accepts the texts "b" and "ab":             *)
(*   0 start: "a" or "b" legal;  1 after "a": only "b" legal;              *)
(*   2 schema satisfied: end of text forced;  3 off the grammar.           *)
(***************************************************************************)
TOKEN_ALLOWED == 1

JsonBias(state) ==
    CASE state = 0 -> << <<TokenIdOf(<<"a">>), TOKEN_ALLOWED>>,
                         <<TokenIdOf(<<"b">>), TOKEN_ALLOWED>> >>
      [] state = 1 -> << <<TokenIdOf(<<"b">>), TOKEN_ALLOWED>> >>
      [] state = 2 -> << <<EotToken, TOKEN_ALLOWED>> >>
      [] OTHER -> <<>>

JsonAdvance(state, token) ==
    CASE state = 0 /\ token = TokenIdOf(<<"a">>) -> 1
      [] state = 0 /\ token = TokenIdOf(<<"b">>) -> 2
      [] state = 1 /\ token = TokenIdOf(<<"b">>) -> 2
      [] OTHER -> 3

\* The texts the schema accepts, and their prefixes.
SchemaTexts == {<<"b">>, <<"a", "b">>}

IsPrefix(s, t) == Len(s) <= Len(t) /\ SubSeq(t, 1, Len(s)) = s

\* biaser.bias(vocabulary, eot_token): NullBiaser lists nothing.
BiaserBias(biaser_config, state) ==
    IF biaser_config = <<>> THEN <<>> ELSE JsonBias(state)

\* biaser.advance(vocabulary, out_token_id): a no-op for NullBiaser.
BiaserAdvance(biaser_config, state, token) ==
    IF biaser_config = <<>> THEN state ELSE JsonAdvance(state, token)

(***************************************************************************)
(* Sampler (TopPTopKBiased): a token missing from a non-empty bias list is *)
(* forbidden; an empty list constrains nothing.  The model may put its     *)
(* weight on any token of SampleTokens.                                    *)
(***************************************************************************)
SampleTokens == {EotToken} \cup {TokenIdOf(<<c>>) : c \in {"a", "b", "h1", "h2"}}

SamplerChoices(bias_tokens) ==
    IF bias_tokens = <<>>
    THEN SampleTokens
    ELSE {bias_tokens[i][1] : i \in 1 .. Len(bias_tokens)}

(***************************************************************************)
(* Inference state (llm::InferenceSession): n_past is the KV-cache length. *)
(***************************************************************************)
\* feed_prompt refuses a prompt that does not fit the context.
FeedPromptFits(past, toks) == past + Len(toks) < ContextSize

\* infer_next_token refuses when the context is full.
InferFits(past) == past + 1 < ContextSize

(***************************************************************************)
(* Memory store and embedding (Memory::store / Memory::get).               *)
(***************************************************************************)
ByteCode(b) ==
    CASE b = "a" -> 1 [] b = "b" -> 2 [] b = "S" -> 4 [] OTHER -> 8

RECURSIVE Embedding(_)
\* backend.embedding(model, request): a one-dimensional embedding of a text.
Embedding(text) ==
    IF text = <<>> THEN 0 ELSE ByteCode(Head(text)) + Embedding(Tail(text))

Distance(e1, e2) == IF e1 >= e2 THEN e1 - e2 ELSE e2 - e1

RECURSIVE Nearest(_, _, _, _)
\* The texts of the top_n items of index nearest to e, nearest first
\* (equally near items in insertion order); taken holds the indexes used.
Nearest(index, e, top_n, taken) ==
    LET rest == (1 .. Len(index)) \ taken
    IN  IF top_n = 0 \/ rest = {}
        THEN <<>>
        ELSE LET best == CHOOSE i \in rest :
                            \A j \in rest :
                                \/ Distance(index[i].embedding, e)
                                     < Distance(index[j].embedding, e)
                                \/ /\ Distance(index[i].embedding, e)
                                        = Distance(index[j].embedding, e)
                                   /\ i <= j
             IN  <<index[best].text>>
                     \o Nearest(index, e, top_n - 1, taken \cup {best})

\* memory.get(embedding, top_n)
MemoryGet(index, e, top_n) == Nearest(index, e, top_n, {})

\* memory.store(text, embedding)
MemoryStore(index, text, e) == Append(index, [text |-> text, embedding |-> e])

RECURSIVE Join(_, _)
\* remembered.join("\n")
Join(texts, sep) ==
    IF texts = <<>> THEN <<>>
    ELSE IF Len(texts) = 1 THEN texts[1]
    ELSE texts[1] \o sep \o Join(Tail(texts), sep)

\* Vec::contains
Contains(seq, x) == \E i \in 1 .. Len(seq) : seq[i] = x

(***************************************************************************)
(* State.  Option<T> is a sequence of no or one element.                   *)
(***************************************************************************)
VARIABLES
    model_bos,         \* model.bot_token_id().is_some()
    task_config,       \* TaskConfig of the session's task
    pc,                \* where the running complete() is
    calls,             \* complete() calls started on this session
    request,           \* request.prompt of the running call
    reminder,          \* what reminder_prompt returned
    tokens,            \* the assembled prompt tokens
    n_past,            \* session.n_past: length of the KV-cache
    completion_stats,  \* InferenceStats of the running call
    task_stats,        \* stats.task_stats[task_name], shared accumulator
    memory,            \* the items of the memory store
    biaser,            \* state of the biaser of the running call
    result_buffer,     \* TokenUtf8Buffer
    stop_sequences,    \* Option<SequenceSet>: matched-prefix lengths
    tokens_generated,  \* loop counter of complete_actual
    tokens_processed,  \* loop counter of the warm-up infer()
    out_token_id,      \* token chosen in the current iteration
    result,            \* what complete() returned: "none" while running
    delivered,         \* fragments handed to the callback by this call
    obs                \* bookkeeping of the running call, read by the properties

\* The WebSocket transport around the session (llmd.rs, socket_task_handler).
VARIABLES
    socket,            \* the socket task: "open", or "closed" once it ended
    rx_prompt,         \* prompts sent on tx_prompt and not yet received
    rx_response,       \* responses sent on tx_response and not yet received
    thread,            \* the model thread: "running" or "ended"
    gone               \* what the session was doing when the socket task ended

transport_vars == << socket, rx_prompt, rx_response, thread, gone >>

VARIABLES
    found              \* the last memory.get made on the store directly

VARIABLES
    mutex,             \* HoraMemory.index: 0, or the client that holds the lock
    client,            \* the store or get call each client of the store is in
    completed          \* the items whose store has returned Ok, in that order

hora_vars == << mutex, client, completed >>

VARIABLES
    running,           \* the session whose state the session variables hold
    parked,            \* the state of every session that is not stepping
    seeds,             \* per session, the token its sampler draws
    stats_log,         \* the stats handed to stats.add, in the order of the adds
    snapshot           \* what stats_handler read last

parallel_vars == << running, parked, seeds, stats_log, snapshot >>

VARIABLES
    commands,          \* LLMWorkerCommands sent to the worker and not yet read
    holder,            \* who has the session: "worker", "task" or "returned"
    prx                \* fragments sent on ptx and not yet received

worker_vars == << commands, holder, prx >>

VARIABLES
    pending,           \* the prompt the socket task is sending on tx_prompt
    arrived,           \* the prompts the socket task has received, in order
    sent               \* what the model thread has sent on tx_response so far

channel_vars == << pending, arrived, sent >>

VARIABLES
    sse,               \* the SSE handler: "generating", "streaming", "ended", "failed"
    spawned,           \* the send tasks spawned and not finished, by fragment number
    sse_rx,            \* the fragment numbers sent on tx and not yet received
    yielded            \* the fragment numbers of the events yielded, in order

sse_vars == << sse, spawned, sse_rx, yielded >>

\* The state of the handlers that are modelled apart from the others.
handler_vars == << worker_vars, channel_vars, sse_vars >>

\* What no step of complete() and no step of its transport changes.
aside_vars == << found, hora_vars, parallel_vars, handler_vars >>


vars ==
    << model_bos, task_config, pc, calls, request, reminder, tokens, n_past,
       completion_stats, task_stats, memory, biaser, result_buffer,
       stop_sequences, tokens_generated, tokens_processed, out_token_id,
       result, delivered, obs, transport_vars, aside_vars >>

config_vars == << model_bos, task_config >>

loop_vars ==
    << biaser, result_buffer, stop_sequences, tokens_generated, out_token_id >>

(***************************************************************************)
(* Task configurations and prompts the model runs.                         *)
(***************************************************************************)
Memorizations ==
    { <<>>,
      << [retrieve |-> <<>>, store_prompts |-> TRUE] >>,
      << [retrieve |-> <<1>>, store_prompts |-> TRUE] >>,
      << [retrieve |-> <<2>>, store_prompts |-> FALSE] >> }

\* Tasks that vary what the prompt is assembled from.
AssemblyConfigs ==
    [ prefix : {<<>>, << <<"a">> >>},
      postfix : {<<>>, << <<"b">> >>},
      bias_prompt : {<<>>},
      biaser : {<<>>},
      stop_sequences : {<<>>},
      private_tokens : {<<>>, << <<"S">> >>, << <<"a">> >>},
      max_tokens : {<<1>>},
      memorization : Memorizations ]

\* Tasks that vary how tokens are generated.
GenerationConfigs ==
    [ prefix : {<<>>},
      postfix : {<<>>},
      bias_prompt : {<<>>, << <<"b">> >>},
      biaser : {<<>>, <<"JsonSchema">>},
      stop_sequences : {<<>>, << <<"a", "b">> >>},
      private_tokens : {<<>>, << <<"a">> >>, << <<"b">> >>},
      max_tokens : {<<>>} \cup {<<n>> : n \in 0 .. MaxTokensBound},
      memorization : {<<>>, << [retrieve |-> <<>>, store_prompts |-> TRUE] >>} ]

\* (model.bot_token_id().is_some(), task configuration)
Setups == (BOOLEAN \X AssemblyConfigs) \cup ({TRUE} \X GenerationConfigs)

Prompts == {<<>>, <<"a">>, <<"S">>, <<"?">>}

ZeroStats == [prompt_tokens |-> 0, predict_tokens |-> 0]

\* InferenceStats::add
StatsAdd(a, b) ==
    [prompt_tokens |-> a.prompt_tokens + b.prompt_tokens,
     predict_tokens |-> a.predict_tokens + b.predict_tokens]

ZeroObs ==
    [kvStart |-> 0, kvPrelude |-> 0, kvLoopStart |-> 0, assembled |-> 0, biasFed |-> 0,
     forcedTaken |-> 0, lastForced |-> EotToken, sampled |-> 0, loopSampled |-> 0,
     offList |-> FALSE, exit |-> "none", matcherCalls |-> 0, released |-> 0,
     suppressed |-> 0,
     recallFailed |-> FALSE, queried |-> FALSE, bosBefore |-> FALSE,
     statsStart |-> [prompt_tokens |-> 0, predict_tokens |-> 0, updates |-> 0],
     memoryStart |-> <<>>]

\* The sessions that use the shared memory store at the same time.
StoreClients == 2

ClientIds == 1 .. StoreClients

\* A client that is in no call of the store.
IdleClient ==
    [pc |-> "idle", text |-> <<>>, embedding |-> 0, top_n |-> 0, texts |-> <<>>]

\* The sessions that run at the same time, one per request.
ParallelSessions == 2

SessionIds == 1 .. ParallelSessions

\* backend.start(): the state of a session that has made no call.
FreshSession ==
    [pc |-> "idle", calls |-> 0, request |-> <<>>, reminder |-> <<>>,
     tokens |-> <<>>, n_past |-> 0, completion_stats |-> ZeroStats,
     biaser |-> 0, result_buffer |-> <<>>, stop_sequences |-> <<>>,
     tokens_generated |-> 0, tokens_processed |-> 0,
     out_token_id |-> EotToken, result |-> "none", delivered |-> <<>>,
     obs |-> ZeroObs]

\* A fresh session of a task, no call made, and its transport just set up.
SessionInit ==
    /\ pc = "idle"
    /\ calls = 0
    /\ request = <<>>
    /\ reminder = <<>>
    /\ tokens = <<>>
    /\ n_past = 0
    /\ completion_stats = ZeroStats
    /\ task_stats = [prompt_tokens |-> 0, predict_tokens |-> 0, updates |-> 0]
    /\ biaser = 0
    /\ result_buffer = <<>>
    /\ stop_sequences = <<>>
    /\ tokens_generated = 0
    /\ tokens_processed = 0
    /\ out_token_id = EotToken
    /\ result = "none"
    /\ delivered = <<>>
    /\ obs = ZeroObs
    /\ socket = "open"
    /\ rx_prompt = <<>>
    /\ rx_response = <<>>
    /\ thread = "running"
    /\ found = <<>>
    /\ mutex = 0
    /\ client = [c \in ClientIds |-> IdleClient]
    /\ completed = <<>>
    /\ running = 1
    /\ parked = [s \in SessionIds |-> FreshSession]
    /\ seeds = [s \in SessionIds |-> EotToken]
    /\ stats_log = <<>>
    /\ snapshot = <<>>
    /\ commands = <<>>
    /\ holder = "worker"
    /\ prx = <<>>
    /\ pending = <<>>
    /\ arrived = <<>>
    /\ sent = <<>>
    /\ sse = "generating"
    /\ spawned = {}
    /\ sse_rx = <<>>
    /\ yielded = <<>>
    /\ gone = <<>>

Init ==
    /\ \E setup \in Setups :
          /\ model_bos = setup[1]
          /\ task_config = setup[2]
    /\ memory = <<>>
    /\ SessionInit

(***************************************************************************)
(* complete(): entry.                                                      *)
(***************************************************************************)
Complete(prompt) ==
    /\ pc = "idle"
    /\ calls < MaxCalls
    /\ calls' = calls + 1
    /\ request' = prompt
    /\ pc' = "recall"
    /\ reminder' = <<>>
    /\ tokens' = <<>>
    /\ completion_stats' = ZeroStats
    /\ biaser' = 0
    /\ result_buffer' = <<>>
    /\ stop_sequences' = <<>>
    /\ tokens_generated' = 0
    /\ tokens_processed' = 0
    /\ out_token_id' = EotToken
    /\ result' = "none"
    /\ delivered' = <<>>
    /\ obs' = [ZeroObs EXCEPT !.kvStart = n_past,
                              !.statsStart = task_stats,
                              !.memoryStart = memory,
                              !.bosBefore = obs.bosBefore \/ Contains(tokens, BotToken)]
    /\ UNCHANGED << config_vars, n_past, task_stats, memory >>

\* Fail that swallows the error: complete() goes on to its epilogue.
FailSwallowed(error) ==
    /\ result' = result
    /\ pc' = "epilogue"

\* An error reaches the caller of complete(): nothing after it runs.
Fail(error) ==
    /\ result' = error
    /\ pc' = "done"

(***************************************************************************)
(* reminder_prompt                                                         *)
(***************************************************************************)
Retrieve ==
    IF task_config.memorization # <<>>
           /\ task_config.memorization[1].retrieve # <<>>
    THEN task_config.memorization[1].retrieve[1]
    ELSE 0

\* self.memory.is_some(): the session is given the store its task's
\* memorization names, and none when the task has no memorization.
MemoryConfigured == task_config.memorization # <<>>

\* A recall that queries the store whatever memorization.retrieve is.
ReminderPromptAlways ==
    /\ pc = "recall"
    /\ reminder' =
          << Join(MemoryGet(memory, Embedding(request), Retrieve), <<"nl">>) >>
    /\ obs' = [obs EXCEPT !.queried = TRUE]
    /\ pc' = "assemble"
    /\ UNCHANGED << config_vars, calls, request, tokens, n_past, completion_stats,
                    task_stats, memory, loop_vars, tokens_processed, result,
                    delivered >>

ReminderPrompt ==
    /\ pc = "recall"
    /\ reminder' =
          IF Retrieve > 0
          THEN << Join(MemoryGet(memory, Embedding(request), Retrieve), <<"nl">>) >>
          ELSE <<>>
    /\ obs' = [obs EXCEPT !.queried = Retrieve > 0]
    /\ pc' = "assemble"
    /\ UNCHANGED << config_vars, calls, request, tokens, n_past, completion_stats,
                    task_stats, memory, loop_vars, tokens_processed, result,
                    delivered >>

\* backend.embedding or memory.get returned an error
ReminderPromptFail ==
    /\ pc = "recall"
    /\ Retrieve > 0
    /\ Fail("Memory")
    /\ \E got \in BOOLEAN :
          obs' = [obs EXCEPT !.recallFailed = TRUE, !.queried = got]
    /\ UNCHANGED << config_vars, calls, request, reminder, tokens, n_past,
                    completion_stats, task_stats, memory, loop_vars,
                    tokens_processed, delivered >>

(***************************************************************************)
(* complete_actual: prompt assembly and the prelude feed.                  *)
(***************************************************************************)
\* private_token_ids: each private token tokenizes to exactly one id
PrivateTokenIds ==
    {Tokenize(task_config.private_tokens[i], FALSE)[1] :
        i \in 1 .. Len(task_config.private_tokens)}

beginning_of_sentence == model_bos /\ n_past = 0

\* AppendFragment that sets the BOS flag on every fragment of a fresh
\* session, not only while no token has been assembled.
AppendFragmentAlwaysBos(acc, fragment) ==
    IF acc.error # "none" \/ fragment = <<>>
    THEN acc
    ELSE IF ~Tokenizable(fragment[1])
    THEN [error |-> "Tokenization", tokens |-> acc.tokens]
    ELSE [error |-> "none",
          tokens |-> acc.tokens \o Tokenize(fragment[1], beginning_of_sentence)]

\* to_tokens of an optional fragment appended to toks: [error, tokens]
AppendFragment(acc, fragment) ==
    IF acc.error # "none" \/ fragment = <<>>
    THEN acc
    ELSE IF ~Tokenizable(fragment[1])
    THEN [error |-> "Tokenization", tokens |-> acc.tokens]
    ELSE [error |-> "none",
          tokens |-> acc.tokens
                       \o Tokenize(fragment[1],
                                   beginning_of_sentence /\ acc.tokens = <<>>)]

\* AppendUserPrompt without the private-token check.
AppendUserPromptUnchecked(acc, prompt) ==
    IF acc.error # "none"
    THEN acc
    ELSE IF ~Tokenizable(prompt)
    THEN [error |-> "Tokenization", tokens |-> acc.tokens]
    ELSE [error |-> "none",
          tokens |-> acc.tokens
                       \o Tokenize(prompt, beginning_of_sentence /\ acc.tokens = <<>>)]

\* The user prompt, refused when one of its tokens is private.
AppendUserPrompt(acc, prompt) ==
    IF acc.error # "none"
    THEN acc
    ELSE IF ~Tokenizable(prompt)
    THEN [error |-> "Tokenization", tokens |-> acc.tokens]
    ELSE LET user_tokens ==
                 Tokenize(prompt, beginning_of_sentence /\ acc.tokens = <<>>)
         IN  IF PrivateTokenIds # {}
                    /\ \E i \in 1 .. Len(user_tokens) :
                           user_tokens[i] \in PrivateTokenIds
             THEN [error |-> "IllegalToken", tokens |-> acc.tokens]
             ELSE [error |-> "none", tokens |-> acc.tokens \o user_tokens]

\* An assembly that puts the prefix before the reminder.
AssemblePromptPrefixFirst ==
    AppendFragment(
        AppendUserPrompt(
            AppendFragment(
                AppendFragment([error |-> "none", tokens |-> <<>>],
                               task_config.prefix),
                reminder),
            request),
        task_config.postfix)

\* reminder, prefix, user prompt, postfix
AssemblePrompt ==
    AppendFragment(
        AppendUserPrompt(
            AppendFragment(
                AppendFragment([error |-> "none", tokens |-> <<>>], reminder),
                task_config.prefix),
            request),
        task_config.postfix)

\* StopSequencesInit that keeps the stop sequences when a biaser is set.
StopSequencesInitWithBiaser ==
    IF task_config.stop_sequences = <<>>
    THEN <<>>
    ELSE << [k \in 1 .. Len(task_config.stop_sequences) |-> 0] >>

\* stop_sequences of the loop: none when the list is empty or a biaser is set
StopSequencesInit ==
    IF task_config.stop_sequences = <<>>
    THEN <<>>
    ELSE IF task_config.biaser # <<>>
    THEN <<>>
    ELSE << [k \in 1 .. Len(task_config.stop_sequences) |-> 0] >>

\* Biaser, UTF-8 buffer, counters and stop sequences as the loop starts.
EnterLoop ==
    /\ pc' = "loop"
    /\ biaser' = 0
    /\ result_buffer' = <<>>
    /\ tokens_generated' = 0
    /\ stop_sequences' = StopSequencesInit
    /\ out_token_id' = EotToken

AssembleFail ==
    /\ pc = "assemble"
    /\ AssemblePrompt.error # "none"
    /\ Fail(AssemblePrompt.error)
    /\ UNCHANGED << config_vars, calls, request, reminder, tokens, n_past,
                    completion_stats, task_stats, memory, loop_vars,
                    tokens_processed, delivered, obs >>

FeedInitialPromptFail ==
    /\ pc = "assemble"
    /\ AssemblePrompt.error = "none"
    /\ ~FeedPromptFits(n_past, AssemblePrompt.tokens)
    /\ Fail("Model")
    /\ tokens' = AssemblePrompt.tokens
    /\ UNCHANGED << config_vars, calls, request, reminder, n_past,
                    completion_stats, task_stats, memory, loop_vars,
                    tokens_processed, delivered, obs >>

FeedInitialPrompt ==
    /\ pc = "assemble"
    /\ AssemblePrompt.error = "none"
    /\ FeedPromptFits(n_past, AssemblePrompt.tokens)
    /\ tokens' = AssemblePrompt.tokens
    /\ n_past' = n_past + Len(AssemblePrompt.tokens)
    /\ completion_stats' =
          StatsAdd(completion_stats,
                   [prompt_tokens |-> Len(AssemblePrompt.tokens), predict_tokens |-> 0])
    /\ obs' = [obs EXCEPT !.assembled = Len(AssemblePrompt.tokens),
                          !.kvPrelude = n_past',
                          !.kvLoopStart = n_past']
    /\ IF task_config.bias_prompt # <<>>
       THEN /\ pc' = "warmup"
            /\ UNCHANGED loop_vars
       ELSE EnterLoop
    /\ UNCHANGED << config_vars, calls, request, reminder, task_stats, memory,
                    tokens_processed, result, delivered >>

(***************************************************************************)
(* Warm-up: session.infer() without bias, then the bias prompt is fed.     *)
(***************************************************************************)
WarmupMore ==
    IF task_config.max_tokens = <<>>
    THEN TRUE
    ELSE tokens_processed < task_config.max_tokens[1]

\* WarmupToken that hands the warm-up token to the caller's callback.
WarmupTokenDelivered ==
    /\ pc = "warmup"
    /\ WarmupMore
    /\ InferFits(n_past)
    /\ n_past' = n_past + 1
    /\ tokens_processed' = tokens_processed + 1
    /\ obs' = [obs EXCEPT !.sampled = @ + 1]
    /\ delivered' = Append(delivered, <<"a">>)
    /\ UNCHANGED << config_vars, pc, calls, request, reminder, tokens,
                    completion_stats, task_stats, memory, loop_vars, result >>

\* infer_next_token in infer(): a token other than end of text
WarmupToken ==
    /\ pc = "warmup"
    /\ WarmupMore
    /\ InferFits(n_past)
    /\ n_past' = n_past + 1
    /\ tokens_processed' = tokens_processed + 1
    /\ obs' = [obs EXCEPT !.sampled = @ + 1]
    /\ UNCHANGED << config_vars, pc, calls, request, reminder, tokens,
                    completion_stats, task_stats, memory, loop_vars, result,
                    delivered >>

\* infer() adds its stats: both counters are read from n_past
WarmupStats(past) ==
    StatsAdd(completion_stats,
             [prompt_tokens |-> obs.kvPrelude, predict_tokens |-> past])

\* infer_next_token in infer(): end of text ends the warm-up
WarmupEot ==
    /\ pc = "warmup"
    /\ WarmupMore
    /\ InferFits(n_past)
    /\ n_past' = n_past + 1
    /\ obs' = [obs EXCEPT !.sampled = @ + 1]
    /\ completion_stats' = WarmupStats(n_past')
    /\ pc' = "biasfeed"
    /\ UNCHANGED << config_vars, calls, request, reminder, tokens, task_stats,
                    memory, loop_vars, tokens_processed, result, delivered >>

\* infer() reached maximum_token_count
WarmupDone ==
    /\ pc = "warmup"
    /\ ~WarmupMore
    /\ completion_stats' = WarmupStats(n_past)
    /\ pc' = "biasfeed"
    /\ UNCHANGED << config_vars, calls, request, reminder, tokens, n_past,
                    task_stats, memory, loop_vars, tokens_processed, result,
                    delivered, obs >>

\* infer_next_token in infer(): the context is full, infer() returns the error
WarmupFail ==
    /\ pc = "warmup"
    /\ WarmupMore
    /\ ~InferFits(n_past)
    /\ Fail("Model")
    /\ UNCHANGED << config_vars, calls, request, reminder, tokens, n_past,
                    completion_stats, task_stats, memory, loop_vars,
                    tokens_processed, delivered, obs >>

\* feed_prompt tokenizes the bias prompt itself
BiasPromptTokens == Tokenize(task_config.bias_prompt[1], beginning_of_sentence)

FeedBiasPromptFail ==
    /\ pc = "biasfeed"
    /\ ~FeedPromptFits(n_past, BiasPromptTokens)
    /\ Fail("Model")
    /\ UNCHANGED << config_vars, calls, request, reminder, tokens, n_past,
                    completion_stats, task_stats, memory, loop_vars,
                    tokens_processed, delivered, obs >>

FeedBiasPrompt ==
    /\ pc = "biasfeed"
    /\ FeedPromptFits(n_past, BiasPromptTokens)
    /\ n_past' = n_past + Len(BiasPromptTokens)
    /\ completion_stats' =
          StatsAdd(completion_stats,
                   [prompt_tokens |-> Len(tokens), predict_tokens |-> 0])
    /\ obs' = [obs EXCEPT !.biasFed = Len(BiasPromptTokens),
                          !.kvLoopStart = n_past']
    /\ EnterLoop
    /\ UNCHANGED << config_vars, calls, request, reminder, tokens, task_stats,
                    memory, tokens_processed, result, delivered >>

(***************************************************************************)
(* The Generate loop, first half of an iteration: the next token.          *)
(***************************************************************************)
IsPublic(entry) == entry[1] \notin PrivateTokenIds

\* biaser.bias(...) with the private tokens removed
biaser_bias == SelectSeq(BiaserBias(task_config.biaser, biaser), IsPublic)

\* "only one token positively biased"
OnlyOnePossible == Len(biaser_bias) = 1 /\ biaser_bias[1][2] > 0

only_possible_token == biaser_bias[1][1]

\* The biaser lists the token with a positive bias.
Listed(t) ==
    LET list == BiaserBias(task_config.biaser, biaser)
    IN  \E i \in 1 .. Len(list) : list[i][1] = t /\ list[i][2] > 0

\* complete_actual returns Ok(completion_stats) after the loop
LeaveLoop(reason) ==
    /\ pc' = "epilogue"
    /\ obs' = [obs EXCEPT !.exit = reason]

\* ForcedToken without the feed ("Still need to feed it to our model!").
ForcedTokenNotFed ==
    /\ pc = "loop"
    /\ OnlyOnePossible
    /\ only_possible_token # EotToken
    /\ out_token_id' = only_possible_token
    /\ tokens_generated' = tokens_generated + 1
    /\ obs' = [obs EXCEPT !.forcedTaken = @ + 1,
                          !.lastForced = only_possible_token,
                          !.offList = @ \/ ~Listed(only_possible_token)]
    /\ pc' = "emit"
    /\ UNCHANGED << config_vars, calls, request, reminder, tokens, n_past,
                    completion_stats, task_stats, memory, biaser, result_buffer,
                    stop_sequences, tokens_processed, result, delivered >>

\* The forced token is fed to the model and becomes the next token.
ForcedToken ==
    /\ pc = "loop"
    /\ OnlyOnePossible
    /\ only_possible_token # EotToken
    /\ FeedPromptFits(n_past, <<only_possible_token>>)
    /\ n_past' = n_past + 1
    /\ completion_stats' =
          StatsAdd(completion_stats, [prompt_tokens |-> 1, predict_tokens |-> 0])
    /\ out_token_id' = only_possible_token
    /\ tokens_generated' = tokens_generated + 1
    /\ obs' = [obs EXCEPT !.forcedTaken = @ + 1,
                          !.lastForced = only_possible_token,
                          !.offList = @ \/ ~Listed(only_possible_token)]
    /\ pc' = "emit"
    /\ UNCHANGED << config_vars, calls, request, reminder, tokens, task_stats,
                    memory, biaser, result_buffer, stop_sequences,
                    tokens_processed, result, delivered >>

\* feed_prompt of the forced token fails: the error is returned with "?"
ForcedTokenFail ==
    /\ pc = "loop"
    /\ OnlyOnePossible
    /\ only_possible_token # EotToken
    /\ ~FeedPromptFits(n_past, <<only_possible_token>>)
    /\ Fail("Model")
    /\ obs' = [obs EXCEPT !.exit = "feed_error"]
    /\ UNCHANGED << config_vars, calls, request, reminder, tokens, n_past,
                    completion_stats, task_stats, memory, loop_vars,
                    tokens_processed, delivered >>

\* ForcedEot that feeds the end-of-text token like any forced token.
ForcedEotFed ==
    /\ pc = "loop"
    /\ OnlyOnePossible
    /\ only_possible_token = EotToken
    /\ FeedPromptFits(n_past, <<only_possible_token>>)
    /\ n_past' = n_past + 1
    /\ out_token_id' = only_possible_token
    /\ tokens_generated' = tokens_generated + 1
    /\ pc' = "epilogue"
    /\ obs' = [obs EXCEPT !.exit = "eot_forced",
                          !.offList = @ \/ ~Listed(only_possible_token)]
    /\ UNCHANGED << config_vars, calls, request, reminder, tokens,
                    completion_stats, task_stats, memory, biaser, result_buffer,
                    stop_sequences, tokens_processed, result, delivered >>

\* The forced token is end of text: nothing is fed, the loop ends.
ForcedEot ==
    /\ pc = "loop"
    /\ OnlyOnePossible
    /\ only_possible_token = EotToken
    /\ out_token_id' = only_possible_token
    /\ tokens_generated' = tokens_generated + 1
    /\ pc' = "epilogue"
    /\ obs' = [obs EXCEPT !.exit = "eot_forced",
                          !.offList = @ \/ ~Listed(only_possible_token)]
    /\ UNCHANGED << config_vars, calls, request, reminder, tokens, n_past,
                    completion_stats, task_stats, memory, biaser, result_buffer,
                    stop_sequences, tokens_processed, result, delivered >>

\* SampleToken that returns the sampled token without evaluating it.
SampleTokenNotEvaluated(t) ==
    /\ pc = "loop"
    /\ ~OnlyOnePossible
    /\ InferFits(n_past)
    /\ t \in SamplerChoices(biaser_bias)
    /\ t # EotToken
    /\ completion_stats' =
          StatsAdd(completion_stats, [prompt_tokens |-> 0, predict_tokens |-> 1])
    /\ out_token_id' = TokenIdOf(Token(t))
    /\ tokens_generated' = tokens_generated + 1
    /\ obs' = [obs EXCEPT !.sampled = @ + 1, !.loopSampled = @ + 1,
                          !.offList = @ \/ ~Listed(t)]
    /\ pc' = "emit"
    /\ UNCHANGED << config_vars, calls, request, reminder, tokens, n_past,
                    task_stats, memory, biaser, result_buffer, stop_sequences,
                    tokens_processed, result, delivered >>

\* infer_next_token returns the bytes of a sampled token
SampleToken(t) ==
    /\ pc = "loop"
    /\ ~OnlyOnePossible
    /\ InferFits(n_past)
    /\ t \in SamplerChoices(biaser_bias)
    /\ t # EotToken
    /\ n_past' = n_past + 1
    /\ completion_stats' =
          StatsAdd(completion_stats, [prompt_tokens |-> 0, predict_tokens |-> 1])
    /\ out_token_id' = TokenIdOf(Token(t))
    /\ tokens_generated' = tokens_generated + 1
    /\ obs' = [obs EXCEPT !.sampled = @ + 1, !.loopSampled = @ + 1,
                          !.offList = @ \/ ~Listed(t)]
    /\ pc' = "emit"
    /\ UNCHANGED << config_vars, calls, request, reminder, tokens, task_stats,
                    memory, biaser, result_buffer, stop_sequences,
                    tokens_processed, result, delivered >>

\* infer_next_token samples end of text: it evaluates the token and returns
\* an error, on which the loop breaks
SampleEot ==
    /\ pc = "loop"
    /\ ~OnlyOnePossible
    /\ InferFits(n_past)
    /\ EotToken \in SamplerChoices(biaser_bias)
    /\ n_past' = n_past + 1
    /\ obs' = [obs EXCEPT !.sampled = @ + 1, !.loopSampled = @ + 1,
                          !.offList = @ \/ ~Listed(EotToken),
                          !.exit = "eot_sampled"]
    /\ pc' = "epilogue"
    /\ UNCHANGED << config_vars, calls, request, reminder, tokens,
                    completion_stats, task_stats, memory, loop_vars,
                    tokens_processed, result, delivered >>

\* infer_next_token fails (the context is full): the loop breaks
SampleFail ==
    /\ pc = "loop"
    /\ ~OnlyOnePossible
    /\ ~InferFits(n_past)
    /\ LeaveLoop("model_error")
    /\ UNCHANGED << config_vars, calls, request, reminder, tokens, n_past,
                    completion_stats, task_stats, memory, loop_vars,
                    tokens_processed, result, delivered >>

(***************************************************************************)
(* Second half of an iteration: biaser, UTF-8 buffer, stop sequences,      *)
(* private tokens, callback, max_tokens.                                   *)
(***************************************************************************)
\* result_buffer.push(vocabulary.token(out_token_id))
Pushed == BufferPush(result_buffer, Token(out_token_id))

\* stop_sequences.advance(output), when stop sequences are in use
Advanced ==
    SequenceSetAdvance(task_config.stop_sequences, stop_sequences[1], Pushed.output)

StopMatched == Pushed.some /\ stop_sequences # <<>> /\ Advanced.matched

\* Delivers without the private-token filter.
DeliversPrivate ==
    /\ Pushed.some
    /\ ~StopMatched

\* the fragment goes to the callback
Delivers ==
    /\ Pushed.some
    /\ ~StopMatched
    /\ ~Contains(task_config.private_tokens, Pushed.output)

\* "stop once we have enough tokens"
EnoughTokens ==
    /\ task_config.biaser = <<>>
    /\ task_config.max_tokens # <<>>
    /\ tokens_generated >= task_config.max_tokens[1]

\* What every second half does before it decides how to go on.
EmitCommon ==
    /\ pc = "emit"
    /\ biaser' = BiaserAdvance(task_config.biaser, biaser, out_token_id)
    /\ result_buffer' = Pushed.buffer
    /\ stop_sequences' =
          IF Pushed.some /\ stop_sequences # <<>>
          THEN << Advanced.state >>
          ELSE stop_sequences
    /\ UNCHANGED << config_vars, calls, request, reminder, tokens, n_past,
                    completion_stats, task_stats, memory, tokens_generated,
                    tokens_processed, out_token_id >>

\* End of the iteration when it did not break earlier.
EndOfIteration(released, matched) ==
    IF EnoughTokens
    THEN /\ pc' = "epilogue"
         /\ obs' = [obs EXCEPT !.exit = "max_tokens",
                               !.released = @ + released,
                               !.suppressed = @ + released - (Len(delivered') - Len(delivered)),
                               !.matcherCalls = @ + matched]
    ELSE /\ pc' = "loop"
         /\ obs' = [obs EXCEPT !.released = @ + released,
                               !.suppressed = @ + released - (Len(delivered') - Len(delivered)),
                               !.matcherCalls = @ + matched]

MatcherCall == IF Pushed.some /\ stop_sequences # <<>> THEN 1 ELSE 0

\* No fragment is released, or the released fragment is a private token.
EmitNothing ==
    /\ EmitCommon
    /\ ~Delivers
    /\ ~StopMatched
    /\ UNCHANGED << result, delivered >>
    /\ EndOfIteration(IF Pushed.some THEN 1 ELSE 0, MatcherCall)

\* A stop sequence is matched: the loop breaks before the callback.
EmitStop ==
    /\ EmitCommon
    /\ StopMatched
    /\ UNCHANGED << result, delivered >>
    /\ pc' = "epilogue"
    /\ obs' = [obs EXCEPT !.exit = "stop", !.released = @ + 1,
                          !.matcherCalls = @ + 1]

\* callback(InferredToken(output)) answers Continue
EmitContinue ==
    /\ EmitCommon
    /\ Delivers
    /\ delivered' = Append(delivered, Pushed.output)
    /\ UNCHANGED result
    /\ EndOfIteration(1, MatcherCall)

\* EmitHalt that goes on with the loop after the callback answered Halt.
EmitHaltIgnored ==
    /\ EmitCommon
    /\ Delivers
    /\ delivered' = Append(delivered, Pushed.output)
    /\ UNCHANGED result
    /\ pc' = "loop"
    /\ obs' = [obs EXCEPT !.exit = "halt", !.released = @ + 1,
                          !.matcherCalls = @ + MatcherCall]

\* callback(InferredToken(output)) answers Halt
EmitHalt ==
    /\ EmitCommon
    /\ Delivers
    /\ delivered' = Append(delivered, Pushed.output)
    /\ UNCHANGED result
    /\ pc' = "epilogue"
    /\ obs' = [obs EXCEPT !.exit = "halt", !.released = @ + 1,
                          !.matcherCalls = @ + MatcherCall]

\* callback(InferredToken(output)) returns an error, passed on with "?"
EmitCallbackError ==
    /\ EmitCommon
    /\ Delivers
    /\ delivered' = Append(delivered, Pushed.output)
    /\ Fail("Callback")
    /\ obs' = [obs EXCEPT !.exit = "callback_error", !.released = @ + 1,
                          !.matcherCalls = @ + MatcherCall]

(***************************************************************************)
(* complete(): after complete_actual returned Ok.                          *)
(***************************************************************************)
StorePrompts ==
    task_config.memorization # <<>> /\ task_config.memorization[1].store_prompts

\* stats.add that writes the counters as they were when the call began
\* plus the stats of the call.
BackendStatsAddStale ==
    /\ pc = "epilogue"
    /\ task_stats' =
          [prompt_tokens |-> obs.statsStart.prompt_tokens
                                + completion_stats.prompt_tokens,
           predict_tokens |-> obs.statsStart.predict_tokens
                                 + completion_stats.predict_tokens,
           updates |-> obs.statsStart.updates + 1]
    /\ IF StorePrompts
       THEN pc' = "remember" /\ UNCHANGED result
       ELSE pc' = "done" /\ result' = "Ok"
    /\ UNCHANGED << config_vars, calls, request, reminder, tokens, n_past,
                    completion_stats, memory, loop_vars, tokens_processed,
                    delivered, obs >>

\* self.stats.add(task_name, stats, n_threads)
BackendStatsAdd ==
    /\ pc = "epilogue"
    /\ task_stats' =
          [prompt_tokens |-> task_stats.prompt_tokens + completion_stats.prompt_tokens,
           predict_tokens |-> task_stats.predict_tokens + completion_stats.predict_tokens,
           updates |-> task_stats.updates + 1]
    /\ IF StorePrompts
       THEN pc' = "remember" /\ UNCHANGED result
       ELSE pc' = "done" /\ result' = "Ok"
    /\ UNCHANGED << config_vars, calls, request, reminder, tokens, n_past,
                    completion_stats, memory, loop_vars, tokens_processed,
                    delivered, obs >>

\* A memorization that inserts the prompt twice.
RememberTwice ==
    /\ pc = "remember"
    /\ memory' = MemoryStore(MemoryStore(memory, request, Embedding(request)),
                             request, Embedding(request))
    /\ pc' = "done"
    /\ result' = "Ok"
    /\ UNCHANGED << config_vars, calls, request, reminder, tokens, n_past,
                    completion_stats, task_stats, loop_vars, tokens_processed,
                    delivered, obs >>

\* memory.store(prompt, embedding)
Remember ==
    /\ pc = "remember"
    /\ memory' = MemoryStore(memory, request, Embedding(request))
    /\ pc' = "done"
    /\ result' = "Ok"
    /\ UNCHANGED << config_vars, calls, request, reminder, tokens, n_past,
                    completion_stats, task_stats, loop_vars, tokens_processed,
                    delivered, obs >>

\* backend.embedding or memory.store returned an error
RememberFail ==
    /\ pc = "remember"
    /\ Fail("Memory")
    /\ UNCHANGED << config_vars, calls, request, reminder, tokens, n_past,
                    completion_stats, task_stats, memory, loop_vars,
                    tokens_processed, delivered, obs >>

\* complete() has returned; the session is ready for the next prompt.
Return ==
    /\ pc = "done"
    /\ calls < MaxCalls
    /\ pc' = "idle"
    /\ UNCHANGED << config_vars, calls, request, reminder, tokens, n_past,
                    completion_stats, task_stats, memory, loop_vars,
                    tokens_processed, result, delivered, obs >>

\* A step of complete() called directly on the session: the transport of
\* llmd.rs is not involved.
Next ==
    \/ (\E prompt \in Prompts : Complete(prompt)) /\ UNCHANGED << transport_vars, aside_vars >>
    \/ ReminderPrompt /\ UNCHANGED << transport_vars, aside_vars >>
    \/ ReminderPromptFail /\ UNCHANGED << transport_vars, aside_vars >>
    \/ AssembleFail /\ UNCHANGED << transport_vars, aside_vars >>
    \/ FeedInitialPromptFail /\ UNCHANGED << transport_vars, aside_vars >>
    \/ FeedInitialPrompt /\ UNCHANGED << transport_vars, aside_vars >>
    \/ WarmupToken /\ UNCHANGED << transport_vars, aside_vars >>
    \/ WarmupEot /\ UNCHANGED << transport_vars, aside_vars >>
    \/ WarmupDone /\ UNCHANGED << transport_vars, aside_vars >>
    \/ WarmupFail /\ UNCHANGED << transport_vars, aside_vars >>
    \/ FeedBiasPromptFail /\ UNCHANGED << transport_vars, aside_vars >>
    \/ FeedBiasPrompt /\ UNCHANGED << transport_vars, aside_vars >>
    \/ ForcedToken /\ UNCHANGED << transport_vars, aside_vars >>
    \/ ForcedTokenFail /\ UNCHANGED << transport_vars, aside_vars >>
    \/ ForcedEot /\ UNCHANGED << transport_vars, aside_vars >>
    \/ (\E t \in SampleTokens : SampleToken(t)) /\ UNCHANGED << transport_vars, aside_vars >>
    \/ SampleEot /\ UNCHANGED << transport_vars, aside_vars >>
    \/ SampleFail /\ UNCHANGED << transport_vars, aside_vars >>
    \/ EmitNothing /\ UNCHANGED << transport_vars, aside_vars >>
    \/ EmitStop /\ UNCHANGED << transport_vars, aside_vars >>
    \/ EmitContinue /\ UNCHANGED << transport_vars, aside_vars >>
    \/ EmitHalt /\ UNCHANGED << transport_vars, aside_vars >>
    \/ EmitCallbackError /\ UNCHANGED << transport_vars, aside_vars >>
    \/ BackendStatsAdd /\ UNCHANGED << transport_vars, aside_vars >>
    \/ Remember /\ UNCHANGED << transport_vars, aside_vars >>
    \/ RememberFail /\ UNCHANGED << transport_vars, aside_vars >>
    \/ Return /\ UNCHANGED << transport_vars, aside_vars >>

Spec == Init /\ [][Next]_vars

(***************************************************************************)
(* Sessions of tasks that only assemble and feed a prompt and generate     *)
(* freely, among them a prefix that alone nearly fills the context.        *)
(***************************************************************************)
AssemblyTasks ==
    [ prefix : {<<>>, << <<"a">> >>, << <<"a", "b", "a">> >>},
      postfix : {<<>>, << <<"b">> >>},
      bias_prompt : {<<>>},
      biaser : {<<>>},
      stop_sequences : {<<>>},
      private_tokens : {<<>>, << <<"a">> >>},
      max_tokens : {<<1>>},
      memorization : {<<>>,
                      << [retrieve |-> <<1>>, store_prompts |-> TRUE] >>,
                      << [retrieve |-> <<2>>, store_prompts |-> FALSE] >>,
                      << [retrieve |-> <<0>>, store_prompts |-> TRUE] >>,
                      << [retrieve |-> <<>>, store_prompts |-> FALSE] >>} ]

\* What the memory store holds when the session starts: HoraMemory::new
\* loads the index that an earlier run dumped to its file.
AssemblyMemories ==
    { <<>>,
      MemoryStore(<<>>, <<"S">>, Embedding(<<"S">>)),
      MemoryStore(MemoryStore(<<>>, <<"S">>, Embedding(<<"S">>)),
                  <<"a">>, Embedding(<<"a">>)) }

AssemblyInit ==
    /\ model_bos \in BOOLEAN
    /\ task_config \in AssemblyTasks
    /\ memory \in AssemblyMemories
    /\ SessionInit

\* The steps of complete() for a task with no bias prompt, biaser or stop
\* sequences.
AssemblyNext ==
    \/ (\E prompt \in Prompts : Complete(prompt)) /\ UNCHANGED << transport_vars, aside_vars >>
    \/ ReminderPrompt /\ UNCHANGED << transport_vars, aside_vars >>
    \/ ReminderPromptFail /\ UNCHANGED << transport_vars, aside_vars >>
    \/ AssembleFail /\ UNCHANGED << transport_vars, aside_vars >>
    \/ FeedInitialPromptFail /\ UNCHANGED << transport_vars, aside_vars >>
    \/ FeedInitialPrompt /\ UNCHANGED << transport_vars, aside_vars >>
    \/ (\E t \in SampleTokens : SampleToken(t)) /\ UNCHANGED << transport_vars, aside_vars >>
    \/ SampleEot /\ UNCHANGED << transport_vars, aside_vars >>
    \/ SampleFail /\ UNCHANGED << transport_vars, aside_vars >>
    \/ EmitNothing /\ UNCHANGED << transport_vars, aside_vars >>
    \/ EmitContinue /\ UNCHANGED << transport_vars, aside_vars >>
    \/ EmitHalt /\ UNCHANGED << transport_vars, aside_vars >>
    \/ EmitCallbackError /\ UNCHANGED << transport_vars, aside_vars >>
    \/ BackendStatsAdd /\ UNCHANGED << transport_vars, aside_vars >>
    \/ Remember /\ UNCHANGED << transport_vars, aside_vars >>
    \/ RememberFail /\ UNCHANGED << transport_vars, aside_vars >>
    \/ Return /\ UNCHANGED << transport_vars, aside_vars >>

AssemblySpec == AssemblyInit /\ [][AssemblyNext]_vars

(***************************************************************************)
(* llmd.rs, socket_task_handler: a model thread that owns the session and  *)
(* a socket task, joined by the channels tx_prompt -> rx_prompt and        *)
(* tx_response -> rx_response.  The channels hold 16 and 32 messages, more *)
(* than this model ever queues, so no send waits for room.                 *)
(***************************************************************************)
session_vars ==
    << config_vars, pc, calls, request, reminder, tokens, n_past,
       completion_stats, task_stats, memory, loop_vars, tokens_processed,
       result, delivered, obs >>

\* The tasks served over the WebSocket in this model.
WsTasks ==
    { [prefix |-> <<>>, postfix |-> <<>>, bias_prompt |-> <<>>, biaser |-> <<>>,
       stop_sequences |-> <<>>, private_tokens |-> << <<"a">> >>,
       max_tokens |-> <<>>, memorization |-> <<>>],
      [prefix |-> <<>>, postfix |-> <<>>, bias_prompt |-> <<>>,
       biaser |-> <<"JsonSchema">>, stop_sequences |-> <<>>,
       private_tokens |-> <<>>, max_tokens |-> <<>>, memorization |-> <<>>],
      [prefix |-> <<>>, postfix |-> <<>>, bias_prompt |-> << <<"b">> >>,
       biaser |-> <<>>, stop_sequences |-> <<>>, private_tokens |-> <<>>,
       max_tokens |-> <<MaxTokensBound>>, memorization |-> <<>>],
      [prefix |-> <<>>, postfix |-> <<>>, bias_prompt |-> <<>>, biaser |-> <<>>,
       stop_sequences |-> << <<"a", "b">> >>, private_tokens |-> <<>>,
       max_tokens |-> <<MaxTokensBound>>,
       memorization |-> << [retrieve |-> <<1>>, store_prompts |-> TRUE] >>] }

\* state.backend.start(task_name, request, backend): a fresh session
WsInit ==
    /\ model_bos = TRUE
    /\ task_config \in WsTasks
    /\ memory = <<>>
    /\ SessionInit

\* A send on tx_response that is taken to succeed whatever became of the
\* receiver.
ResponseSendNeverFails == FALSE

\* tx_response.blocking_send(...).is_err(): the receiver has been dropped
ResponseSendFails == socket = "closed"

\* The socket task leaves its loop: ws, tx_prompt and rx_response are dropped.
SocketEnds ==
    /\ socket' = "closed"
    /\ rx_response' = <<>>
    /\ gone' = << [calls |-> calls, busy |-> pc # "idle"] >>

\* ws.recv() yields Message::Text(prompt): the prompt goes to the model thread
WsText(prompt) ==
    /\ socket = "open"
    /\ calls + Len(rx_prompt) < MaxCalls
    /\ rx_prompt' = Append(rx_prompt, prompt)
    /\ UNCHANGED << socket, rx_response, thread, gone, session_vars >>

\* ws.recv() yields None, Message::Close or Message::Binary
WsClose ==
    /\ socket = "open"
    /\ SocketEnds
    /\ UNCHANGED << rx_prompt, thread, session_vars >>

\* rx_response.recv() yields Ok(txt) and ws.send(txt) succeeds
WsForward ==
    /\ socket = "open"
    /\ rx_response # <<>>
    /\ Head(rx_response).ok
    /\ rx_response' = Tail(rx_response)
    /\ UNCHANGED << socket, rx_prompt, thread, gone, session_vars >>

\* rx_response.recv() yields Ok(txt) and ws.send(txt) reports an error
WsSendError ==
    /\ socket = "open"
    /\ rx_response # <<>>
    /\ Head(rx_response).ok
    /\ SocketEnds
    /\ UNCHANGED << rx_prompt, thread, session_vars >>

\* rx_response.recv() yields Err(e): "backend thread reported error"
WsBackendError ==
    /\ socket = "open"
    /\ rx_response # <<>>
    /\ ~Head(rx_response).ok
    /\ SocketEnds
    /\ UNCHANGED << rx_prompt, thread, session_vars >>

\* rx_prompt.blocking_recv() yields a prompt: session.complete(prompt, ...)
ThreadPrompt ==
    /\ thread = "running"
    /\ rx_prompt # <<>>
    /\ Complete(Head(rx_prompt))
    /\ rx_prompt' = Tail(rx_prompt)
    /\ UNCHANGED << socket, rx_response, thread, gone >>

\* rx_prompt.blocking_recv() yields None: "ending model thread"
ThreadNoPrompt ==
    /\ thread = "running"
    /\ pc = "idle"
    /\ rx_prompt = <<>>
    /\ socket = "closed"
    /\ thread' = "ended"
    /\ UNCHANGED << socket, rx_prompt, rx_response, gone, session_vars >>

\* The callback of the thread: the fragment is sent, the reply is Continue.
ThreadCallbackContinue ==
    /\ ~ResponseSendFails
    /\ EmitContinue
    /\ rx_response' = Append(rx_response, [ok |-> TRUE, text |-> Pushed.output])
    /\ UNCHANGED << socket, rx_prompt, thread, gone >>

\* The callback of the thread: the send fails, the reply is Halt.
ThreadCallbackHalt ==
    /\ ResponseSendFails
    /\ EmitHalt
    /\ UNCHANGED transport_vars

\* ResultMessage that marks the end of the cycle whatever complete() returned.
ResultMessageMarkerOnly == [ok |-> TRUE, text |-> <<>>]

\* What the thread sends when complete() has returned: the empty token
\* after Ok, the error text after Err.
ResultMessage ==
    IF result = "Ok"
    THEN [ok |-> TRUE, text |-> <<>>]
    ELSE [ok |-> FALSE, text |-> <<result>>]

\* match res: the send succeeds and the thread waits for the next prompt
ThreadResult ==
    /\ thread = "running"
    /\ pc = "done"
    /\ ~ResponseSendFails
    /\ rx_response' = Append(rx_response, ResultMessage)
    /\ pc' = "idle"
    /\ UNCHANGED << socket, rx_prompt, thread, gone, config_vars, calls, request,
                    reminder, tokens, n_past, completion_stats, task_stats,
                    memory, loop_vars, tokens_processed, result, delivered, obs >>

\* match res: the send fails ("output channel was probably dropped"): break
ThreadResultBreak ==
    /\ thread = "running"
    /\ pc = "done"
    /\ ResponseSendFails
    /\ thread' = "ended"
    /\ UNCHANGED << socket, rx_prompt, rx_response, gone, session_vars >>

\* The steps of complete() in which the callback is not called.
ThreadNext ==
    \/ ThreadPrompt /\ UNCHANGED aside_vars
    \/ ThreadNoPrompt /\ UNCHANGED aside_vars
    \/ ReminderPrompt /\ UNCHANGED << transport_vars, aside_vars >>
    \/ ReminderPromptFail /\ UNCHANGED << transport_vars, aside_vars >>
    \/ AssembleFail /\ UNCHANGED << transport_vars, aside_vars >>
    \/ FeedInitialPromptFail /\ UNCHANGED << transport_vars, aside_vars >>
    \/ FeedInitialPrompt /\ UNCHANGED << transport_vars, aside_vars >>
    \/ WarmupToken /\ UNCHANGED << transport_vars, aside_vars >>
    \/ WarmupEot /\ UNCHANGED << transport_vars, aside_vars >>
    \/ WarmupDone /\ UNCHANGED << transport_vars, aside_vars >>
    \/ WarmupFail /\ UNCHANGED << transport_vars, aside_vars >>
    \/ FeedBiasPromptFail /\ UNCHANGED << transport_vars, aside_vars >>
    \/ FeedBiasPrompt /\ UNCHANGED << transport_vars, aside_vars >>
    \/ ForcedToken /\ UNCHANGED << transport_vars, aside_vars >>
    \/ ForcedTokenFail /\ UNCHANGED << transport_vars, aside_vars >>
    \/ ForcedEot /\ UNCHANGED << transport_vars, aside_vars >>
    \/ (\E t \in SampleTokens : SampleToken(t)) /\ UNCHANGED << transport_vars, aside_vars >>
    \/ SampleEot /\ UNCHANGED << transport_vars, aside_vars >>
    \/ SampleFail /\ UNCHANGED << transport_vars, aside_vars >>
    \/ EmitNothing /\ UNCHANGED << transport_vars, aside_vars >>
    \/ EmitStop /\ UNCHANGED << transport_vars, aside_vars >>
    \/ ThreadCallbackContinue /\ UNCHANGED aside_vars
    \/ ThreadCallbackHalt /\ UNCHANGED aside_vars
    \/ BackendStatsAdd /\ UNCHANGED << transport_vars, aside_vars >>
    \/ Remember /\ UNCHANGED << transport_vars, aside_vars >>
    \/ RememberFail /\ UNCHANGED << transport_vars, aside_vars >>
    \/ ThreadResult /\ UNCHANGED aside_vars
    \/ ThreadResultBreak /\ UNCHANGED aside_vars

\* The prompts that arrive as text messages in this model.
WsPrompts == {<<>>, <<"a">>}

SocketNext ==
    \/ \E prompt \in WsPrompts : WsText(prompt) /\ UNCHANGED aside_vars
    \/ WsClose /\ UNCHANGED aside_vars
    \/ WsForward /\ UNCHANGED aside_vars
    \/ WsSendError /\ UNCHANGED aside_vars
    \/ WsBackendError /\ UNCHANGED aside_vars

WsNext == ThreadNext \/ SocketNext

WsSpec == WsInit /\ [][WsNext]_vars

\* spawn_blocking gives the model thread a thread of its own: it keeps
\* running whatever the socket task does.
WsFairSpec == WsSpec /\ WF_vars(ThreadNext)

(***************************************************************************)
(* The memory store on its own: HoraMemory::store and HoraMemory::get      *)
(* called directly, as test_store does, with texts and embeddings that     *)
(* need not come from any prompt.  Embeddings have one dimension.          *)
(***************************************************************************)
MaxStored == 3

MaxEmbedding == 2

MaxTopN == 2

StoreTexts == {<<"a">>, <<"b">>}

StoreEmbeddings == 0 .. MaxEmbedding

\* No complete() runs: the session stays as it was constructed.
StoreInit ==
    /\ model_bos = FALSE
    /\ task_config \in {t \in AssemblyTasks :
                            /\ t.prefix = <<>>
                            /\ t.postfix = <<>>
                            /\ t.private_tokens = <<>>
                            /\ t.memorization = <<>>}
    /\ memory = <<>>
    /\ SessionInit

\* store(text, embedding): index.add, index.build, index.dump
Store(text, embedding) ==
    /\ Len(memory) < MaxStored
    /\ memory' = MemoryStore(memory, text, embedding)
    /\ found' = <<>>
    /\ UNCHANGED << config_vars, pc, calls, request, reminder, tokens, n_past,
                    completion_stats, task_stats, loop_vars, tokens_processed,
                    result, delivered, obs, transport_vars, hora_vars,
                    parallel_vars, handler_vars >>

\* get(embedding, top_n): index.search(embedding, top_n)
Get(embedding, top_n) ==
    /\ found' = << [embedding |-> embedding, top_n |-> top_n,
                    texts |-> MemoryGet(memory, embedding, top_n)] >>
    /\ UNCHANGED << session_vars, transport_vars, hora_vars, parallel_vars,
                    handler_vars >>

StoreNext ==
    \/ \E text \in StoreTexts, embedding \in StoreEmbeddings :
          Store(text, embedding)
    \/ \E embedding \in StoreEmbeddings, top_n \in 0 .. MaxTopN :
          Get(embedding, top_n)

StoreSpec == StoreInit /\ [][StoreNext]_vars

(***************************************************************************)
(* The memory store shared by sessions: each client is a session whose     *)
(* memory bridge calls store or get (session.rs 61-70 and 106-116).  Both  *)
(* methods begin with self.index.lock().await and hold the guard until     *)
(* they return.                                                            *)
(***************************************************************************)
\* The embeddings and the top_n that the sessions pass to the store.
HoraEmbeddings == {0, MaxEmbedding}

HoraTopN == {1, MaxTopN}

hora_frame ==
    << config_vars, pc, calls, request, reminder, tokens, n_past,
       completion_stats, task_stats, loop_vars, tokens_processed, result,
       delivered, obs, transport_vars, found, parallel_vars, handler_vars >>

\* self.index.lock().await without waiting for the lock to be free
HoraLockNoWait(c) ==
    /\ client[c].pc \in {"store_lock", "get_lock"}
    /\ client' = [client EXCEPT ![c].pc =
                      IF client[c].pc = "store_lock" THEN "add" ELSE "search"]
    /\ UNCHANGED << mutex, completed, memory >>

\* memory.store(text, embedding) is called
HoraStoreCall(c, text, embedding) ==
    /\ client[c].pc = "idle"
    /\ Len(memory) + Cardinality({d \in ClientIds :
                                     client[d].pc \in {"store_lock", "add"}})
           < MaxStored
    /\ client' = [client EXCEPT ![c] =
                      [pc |-> "store_lock", text |-> text,
                       embedding |-> embedding, top_n |-> 0, texts |-> <<>>]]
    /\ UNCHANGED << mutex, completed, memory >>

\* memory.get(embedding, top_n) is called
HoraGetCall(c, embedding, top_n) ==
    /\ client[c].pc = "idle"
    /\ client' = [client EXCEPT ![c] =
                      [pc |-> "get_lock", text |-> <<>>,
                       embedding |-> embedding, top_n |-> top_n,
                       texts |-> <<>>]]
    /\ UNCHANGED << mutex, completed, memory >>

\* self.index.lock().await yields the guard
HoraLock(c) ==
    /\ client[c].pc \in {"store_lock", "get_lock"}
    /\ mutex = 0
    /\ mutex' = c
    /\ client' = [client EXCEPT ![c].pc =
                      IF client[c].pc = "store_lock" THEN "add" ELSE "search"]
    /\ UNCHANGED << completed, memory >>

\* index.add(embedding, text): the item is in the index, not yet built
HoraAdd(c) ==
    /\ client[c].pc = "add"
    /\ memory' = MemoryStore(memory, client[c].text, client[c].embedding)
    /\ client' = [client EXCEPT ![c].pc = "build"]
    /\ UNCHANGED << mutex, completed >>

\* index.build(Euclidean) and index.dump(path)
HoraBuild(c) ==
    /\ client[c].pc = "build"
    /\ client' = [client EXCEPT ![c].pc = "stored"]
    /\ UNCHANGED << mutex, completed, memory >>

\* Ok(()) is returned and the guard dropped
HoraStoreReturn(c) ==
    /\ client[c].pc = "stored"
    /\ completed' = Append(completed,
                           [text |-> client[c].text,
                            embedding |-> client[c].embedding])
    /\ mutex' = IF mutex = c THEN 0 ELSE mutex
    /\ client' = [client EXCEPT ![c] = IdleClient]
    /\ UNCHANGED memory

\* index.search(embedding, top_n)
HoraSearch(c) ==
    /\ client[c].pc = "search"
    /\ client' = [client EXCEPT
                      ![c].pc = "got",
                      ![c].texts = MemoryGet(memory, client[c].embedding,
                                             client[c].top_n)]
    /\ UNCHANGED << mutex, completed, memory >>

\* Ok(texts) is returned and the guard dropped; the caller takes the texts
\* before its next call.
HoraGetReturn(c) ==
    /\ client[c].pc = "got"
    /\ mutex' = IF mutex = c THEN 0 ELSE mutex
    /\ client' = [client EXCEPT ![c].pc = "idle"]
    /\ UNCHANGED << completed, memory >>

HoraNext ==
    \/ \E c \in ClientIds, text \in StoreTexts, embedding \in HoraEmbeddings :
          HoraStoreCall(c, text, embedding) /\ UNCHANGED hora_frame
    \/ \E c \in ClientIds, embedding \in HoraEmbeddings, top_n \in HoraTopN :
          HoraGetCall(c, embedding, top_n) /\ UNCHANGED hora_frame
    \/ \E c \in ClientIds : HoraLock(c) /\ UNCHANGED hora_frame
    \/ \E c \in ClientIds : HoraAdd(c) /\ UNCHANGED hora_frame
    \/ \E c \in ClientIds : HoraBuild(c) /\ UNCHANGED hora_frame
    \/ \E c \in ClientIds : HoraStoreReturn(c) /\ UNCHANGED hora_frame
    \/ \E c \in ClientIds : HoraSearch(c) /\ UNCHANGED hora_frame
    \/ \E c \in ClientIds : HoraGetReturn(c) /\ UNCHANGED hora_frame

HoraSpec == StoreInit /\ [][HoraNext]_vars

(***************************************************************************)
(* Sessions in parallel: task_completion_handler starts a session for each *)
(* request and runs one complete() on it in a blocking task.  The sessions *)
(* share the model, the memory store and the stats; everything else is the *)
(* session's own.  The session variables hold the state of the session     *)
(* that takes the next step, the others are parked.                        *)
(***************************************************************************)
ParallelTasks ==
    { [prefix |-> <<>>, postfix |-> <<>>, bias_prompt |-> <<>>, biaser |-> <<>>,
       stop_sequences |-> <<>>, private_tokens |-> <<>>,
       max_tokens |-> <<1>>, memorization |-> <<>>],
      [prefix |-> <<>>, postfix |-> <<>>, bias_prompt |-> <<>>, biaser |-> <<>>,
       stop_sequences |-> <<>>, private_tokens |-> <<>>,
       max_tokens |-> <<1>>,
       memorization |-> << [retrieve |-> <<1>>, store_prompts |-> TRUE] >>] }

\* A prompt that fills the context but for one token.
LongPrompt == [i \in 1 .. (ContextSize - 1) |-> "b"]

ParallelPrompts == {<<"a">>, <<"?">>, LongPrompt}

\* The tokens the sampler draws in this model: a letter, and the first half
\* of a character, which releases no fragment.
ParallelSampleTokens == {TokenIdOf(<<"a">>), TokenIdOf(<<"h1">>)}

ParallelInit ==
    /\ model_bos = FALSE
    /\ task_config \in ParallelTasks
    /\ memory = <<>>
    /\ SessionInit

\* The state of the session that is stepping.
Local ==
    [pc |-> pc, calls |-> calls, request |-> request, reminder |-> reminder,
     tokens |-> tokens, n_past |-> n_past,
     completion_stats |-> completion_stats, biaser |-> biaser,
     result_buffer |-> result_buffer, stop_sequences |-> stop_sequences,
     tokens_generated |-> tokens_generated,
     tokens_processed |-> tokens_processed, out_token_id |-> out_token_id,
     result |-> result, delivered |-> delivered, obs |-> obs]

\* The state of session s, stepping or not.
SessionState(s) == IF s = running THEN Local ELSE parked[s]

\* A Switch between sessions that share one inference state: the KV-cache
\* and the biaser stay as the session that stepped last left them.
SwitchSharingInference(s) ==
    /\ s # running
    /\ running' = s
    /\ parked' = [parked EXCEPT ![running] = Local, ![s] = FreshSession]
    /\ pc' = parked[s].pc
    /\ calls' = parked[s].calls
    /\ request' = parked[s].request
    /\ reminder' = parked[s].reminder
    /\ tokens' = parked[s].tokens
    /\ n_past' = n_past
    /\ completion_stats' = parked[s].completion_stats
    /\ biaser' = biaser
    /\ result_buffer' = parked[s].result_buffer
    /\ stop_sequences' = parked[s].stop_sequences
    /\ tokens_generated' = parked[s].tokens_generated
    /\ tokens_processed' = parked[s].tokens_processed
    /\ out_token_id' = parked[s].out_token_id
    /\ result' = parked[s].result
    /\ delivered' = parked[s].delivered
    /\ obs' = parked[s].obs
    /\ UNCHANGED << config_vars, task_stats, memory, seeds, stats_log,
                    snapshot, transport_vars, found, hora_vars, handler_vars >>

\* The blocking task of session s is the next to take a step.
Switch(s) ==
    /\ s # running
    /\ running' = s
    /\ parked' = [parked EXCEPT ![running] = Local, ![s] = FreshSession]
    /\ pc' = parked[s].pc
    /\ calls' = parked[s].calls
    /\ request' = parked[s].request
    /\ reminder' = parked[s].reminder
    /\ tokens' = parked[s].tokens
    /\ n_past' = parked[s].n_past
    /\ completion_stats' = parked[s].completion_stats
    /\ biaser' = parked[s].biaser
    /\ result_buffer' = parked[s].result_buffer
    /\ stop_sequences' = parked[s].stop_sequences
    /\ tokens_generated' = parked[s].tokens_generated
    /\ tokens_processed' = parked[s].tokens_processed
    /\ out_token_id' = parked[s].out_token_id
    /\ result' = parked[s].result
    /\ delivered' = parked[s].delivered
    /\ obs' = parked[s].obs
    /\ UNCHANGED << config_vars, task_stats, memory, seeds, stats_log,
                    snapshot, transport_vars, found, hora_vars, handler_vars >>

\* stats_handler: state.backend.stats.task_stats.lock().unwrap().clone()
StatsHandler ==
    /\ snapshot' = << task_stats >>
    /\ UNCHANGED << session_vars, transport_vars, found, hora_vars, running,
                    parked, seeds, stats_log, handler_vars >>

\* What a step of the stepping session leaves alone.
parallel_frame ==
    << transport_vars, found, hora_vars, running, parked, seeds, stats_log,
       snapshot, handler_vars >>

ParallelNext ==
    \/ \E s \in SessionIds : Switch(s)
    \/ StatsHandler
    \/ (\E prompt \in ParallelPrompts, t \in ParallelSampleTokens \cup {EotToken} :
            /\ calls = 0
            /\ Complete(prompt)
            /\ seeds' = [seeds EXCEPT ![running] = t])
          /\ UNCHANGED << transport_vars, found, hora_vars, running, parked,
                          stats_log, snapshot, handler_vars >>
    \/ ReminderPrompt /\ UNCHANGED parallel_frame
    \/ ReminderPromptFail /\ UNCHANGED parallel_frame
    \/ AssembleFail /\ UNCHANGED parallel_frame
    \/ FeedInitialPromptFail /\ UNCHANGED parallel_frame
    \/ FeedInitialPrompt /\ UNCHANGED parallel_frame
    \/ SampleToken(seeds[running]) /\ UNCHANGED parallel_frame
    \/ (seeds[running] = EotToken /\ SampleEot) /\ UNCHANGED parallel_frame
    \/ SampleFail /\ UNCHANGED parallel_frame
    \/ EmitNothing /\ UNCHANGED parallel_frame
    \/ EmitContinue /\ UNCHANGED parallel_frame
    \/ BackendStatsAdd
          /\ stats_log' = Append(stats_log, completion_stats)
          /\ UNCHANGED << transport_vars, found, hora_vars, running, parked,
                          seeds, snapshot, handler_vars >>
    \/ Remember /\ UNCHANGED parallel_frame
    \/ RememberFail /\ UNCHANGED parallel_frame

ParallelSpec == ParallelInit /\ [][ParallelNext]_vars

(***************************************************************************)
(* The worker of the desktop application (llm-ui/src/worker.rs): one       *)
(* session of the main task, commands read one at a time, every prompt     *)
(* completed on a blocking task that takes the session and gives it back.  *)
(***************************************************************************)
\* Commands that can wait in the channel of the worker in this model (the
\* channel of the source holds 100).
MaxCommands == 2

\* Calls that add their statistics to the backend's before the worker of
\* this model stops taking prompts (the counters of the source are not
\* bounded).
MaxWorkerUpdates == 2

\* The main task in this model.
WorkerTasks ==
    { [prefix |-> <<>>, postfix |-> <<>>, bias_prompt |-> <<>>, biaser |-> <<>>,
       stop_sequences |-> <<>>, private_tokens |-> <<>>,
       max_tokens |-> <<2>>, memorization |-> <<>>] }

WorkerPrompts == {<<"a">>, <<"?">>}

WorkerCommands ==
    {[kind |-> "Reset", prompt |-> <<>>]}
        \cup {[kind |-> "Prompt", prompt |-> p] : p \in WorkerPrompts}

\* backend.start(&main_task_name, ...) before the loop
WorkerInit ==
    /\ model_bos = TRUE
    /\ task_config \in WorkerTasks
    /\ memory = <<>>
    /\ SessionInit

worker_frame ==
    << transport_vars, found, hora_vars, parallel_vars, channel_vars, sse_vars >>

\* The application sends a command; the worker may be busy.
UiSend(command) ==
    /\ Len(commands) < MaxCommands
    /\ commands' = Append(commands, command)
    /\ UNCHANGED << session_vars, holder, prx, worker_frame >>

\* A worker that reads the next command while the blocking task still has
\* the session.
WorkerReadsAnyTime == TRUE

\* receiver.select_next_some().await is reached only with the session back
WorkerReads == holder = "worker"

\* LLMWorkerCommand::Reset: session = backend.start(...)
WorkerReset ==
    /\ WorkerReads
    /\ commands # <<>>
    /\ Head(commands).kind = "Reset"
    /\ commands' = Tail(commands)
    /\ pc' = FreshSession.pc
    /\ calls' = FreshSession.calls
    /\ request' = FreshSession.request
    /\ reminder' = FreshSession.reminder
    /\ tokens' = FreshSession.tokens
    /\ n_past' = FreshSession.n_past
    /\ completion_stats' = FreshSession.completion_stats
    /\ biaser' = FreshSession.biaser
    /\ result_buffer' = FreshSession.result_buffer
    /\ stop_sequences' = FreshSession.stop_sequences
    /\ tokens_generated' = FreshSession.tokens_generated
    /\ tokens_processed' = FreshSession.tokens_processed
    /\ out_token_id' = FreshSession.out_token_id
    /\ result' = FreshSession.result
    /\ delivered' = FreshSession.delivered
    /\ obs' = FreshSession.obs
    /\ UNCHANGED << config_vars, task_stats, memory, holder, prx, worker_frame >>

\* LLMWorkerCommand::Prompt: spawn_blocking takes the session and calls
\* complete() on it.
WorkerPrompt ==
    /\ WorkerReads
    /\ task_stats.updates < MaxWorkerUpdates
    /\ commands # <<>>
    /\ Head(commands).kind = "Prompt"
    /\ commands' = Tail(commands)
    /\ holder' = "task"
    /\ Complete(Head(commands).prompt)
    /\ UNCHANGED << prx, worker_frame >>

\* A step of complete() on the blocking task.
TaskStep(step) ==
    /\ holder = "task"
    /\ step
    /\ UNCHANGED << worker_vars, worker_frame >>

\* The callback of the blocking task: the fragment is sent on ptx, the
\* reply is Continue.
TaskCallback ==
    /\ holder = "task"
    /\ EmitContinue
    /\ prx' = Append(prx, Pushed.output)
    /\ UNCHANGED << commands, holder, worker_frame >>

\* complete() has returned, whatever its result: the closure gives the
\* session back and drops ptx.
TaskReturn ==
    /\ holder = "task"
    /\ pc = "done"
    /\ holder' = "returned"
    /\ UNCHANGED << session_vars, commands, prx, worker_frame >>

\* prx.recv() yields a fragment: it goes to the application
WorkerForward ==
    /\ holder # "worker"
    /\ prx # <<>>
    /\ prx' = Tail(prx)
    /\ UNCHANGED << session_vars, commands, holder, worker_frame >>

\* prx.recv() yields None; session = session_fut.await.unwrap()
WorkerJoin ==
    /\ holder = "returned"
    /\ prx = <<>>
    /\ holder' = "worker"
    /\ pc' = "idle"
    /\ UNCHANGED << config_vars, calls, request, reminder, tokens, n_past,
                    completion_stats, task_stats, memory, loop_vars,
                    tokens_processed, result, delivered, obs, commands, prx,
                    worker_frame >>

WorkerNext ==
    \/ \E command \in WorkerCommands : UiSend(command)
    \/ WorkerReset
    \/ WorkerPrompt
    \/ TaskStep(ReminderPrompt)
    \/ TaskStep(AssembleFail)
    \/ TaskStep(FeedInitialPromptFail)
    \/ TaskStep(FeedInitialPrompt)
    \/ TaskStep(\E t \in SampleTokens : SampleToken(t))
    \/ TaskStep(SampleEot)
    \/ TaskStep(SampleFail)
    \/ TaskStep(EmitNothing)
    \/ TaskCallback
    \/ TaskStep(BackendStatsAdd)
    \/ TaskReturn
    \/ WorkerForward
    \/ WorkerJoin

WorkerSpec == WorkerInit /\ [][WorkerNext]_vars

\* What the worker and its blocking task do by themselves: the blocking
\* task has a thread of its own and the worker is a task of the runtime, so
\* neither waits for the application to send anything.
WorkerRuns ==
    \/ WorkerReset
    \/ WorkerPrompt
    \/ TaskStep(ReminderPrompt)
    \/ TaskStep(AssembleFail)
    \/ TaskStep(FeedInitialPromptFail)
    \/ TaskStep(FeedInitialPrompt)
    \/ TaskStep(\E t \in SampleTokens : SampleToken(t))
    \/ TaskStep(SampleEot)
    \/ TaskStep(SampleFail)
    \/ TaskStep(EmitNothing)
    \/ TaskCallback
    \/ TaskStep(BackendStatsAdd)
    \/ TaskReturn
    \/ WorkerForward
    \/ WorkerJoin

WorkerFairSpec == WorkerSpec /\ WF_vars(WorkerRuns)

(***************************************************************************)
(* The WebSocket handler with its two bounded channels (llmd.rs 151-239):  *)
(* tx_prompt.send(...).await waits for room while the socket task polls    *)
(* nothing else, tx_response.blocking_send(...) waits for room on the      *)
(* model thread.                                                           *)
(***************************************************************************)
\* mpsc::channel(16) of the prompts, scaled to the generations of this model
PromptCapacity == 1

\* mpsc::channel(32) of the responses, scaled likewise
ResponseCapacity == 1

\* Text messages the client sends in this model.
MaxPrompts == 3

ChannelTasks ==
    { [prefix |-> <<>>, postfix |-> <<>>, bias_prompt |-> <<>>, biaser |-> <<>>,
       stop_sequences |-> <<>>, private_tokens |-> <<>>,
       max_tokens |-> <<MaxTokensBound>>, memorization |-> <<>>] }

ChannelPrompts == {<<"a">>, <<"?">>}

ChannelInit ==
    /\ model_bos = TRUE
    /\ task_config \in ChannelTasks
    /\ memory = <<>>
    /\ SessionInit

channel_frame == << found, hora_vars, parallel_vars, worker_vars, sse_vars >>

\* The socket task is in select!, not inside one of its branches.
InSelect == socket = "open" /\ pending = <<>>

\* ws.recv() yields Message::Text(prompt): the branch starts to send it
ChannelText(prompt) ==
    /\ InSelect
    /\ Len(arrived) < MaxPrompts
    /\ pending' = <<prompt>>
    /\ arrived' = Append(arrived, prompt)
    /\ UNCHANGED << session_vars, transport_vars, sent, channel_frame >>

\* tx_prompt.send(prompt).await completes once the channel has room
ChannelPromptSent ==
    /\ socket = "open"
    /\ pending # <<>>
    /\ Len(rx_prompt) < PromptCapacity
    /\ rx_prompt' = Append(rx_prompt, pending[1])
    /\ pending' = <<>>
    /\ UNCHANGED << session_vars, socket, rx_response, thread, gone, arrived,
                    sent, channel_frame >>

\* A branch of select! other than the one of a text message.
ChannelSelect(branch) ==
    /\ InSelect
    /\ branch
    /\ UNCHANGED aside_vars

\* tx_response.blocking_send returns once the channel has room
ResponseRoom == Len(rx_response) < ResponseCapacity

\* The callback of the thread: the fragment is sent, the reply is Continue.
ChannelCallback ==
    /\ ResponseRoom
    /\ ThreadCallbackContinue
    /\ sent' = Append(sent, [call |-> calls, ok |-> TRUE, text |-> Pushed.output])
    /\ UNCHANGED << pending, arrived, channel_frame >>

\* match res: the empty token or the error text is sent
ChannelResult ==
    /\ ResponseRoom
    /\ ThreadResult
    /\ sent' = Append(sent, [call |-> calls, ok |-> ResultMessage.ok,
                             text |-> ResultMessage.text])
    /\ UNCHANGED << pending, arrived, channel_frame >>

\* A step of the model thread that sends nothing.
ChannelThread(step) ==
    /\ step
    /\ UNCHANGED << transport_vars, aside_vars >>

\* What the socket task and the model thread do by themselves.
ChannelRuns ==
    \/ ChannelPromptSent
    \/ ChannelSelect(WsForward)
    \/ ChannelSelect(WsSendError)
    \/ ChannelSelect(WsBackendError)
    \/ ThreadPrompt /\ UNCHANGED aside_vars
    \/ ThreadNoPrompt /\ UNCHANGED aside_vars
    \/ ChannelThread(ReminderPrompt)
    \/ ChannelThread(AssembleFail)
    \/ ChannelThread(FeedInitialPromptFail)
    \/ ChannelThread(FeedInitialPrompt)
    \/ ChannelThread(\E t \in SampleTokens : SampleToken(t))
    \/ ChannelThread(SampleEot)
    \/ ChannelThread(SampleFail)
    \/ ChannelThread(EmitNothing)
    \/ ChannelCallback
    \/ ThreadCallbackHalt /\ UNCHANGED aside_vars
    \/ ChannelThread(BackendStatsAdd)
    \/ ChannelResult
    \/ ThreadResultBreak /\ UNCHANGED aside_vars

\* What the client does: a text message, or the end of the connection.
ChannelClient ==
    \/ \E prompt \in ChannelPrompts : ChannelText(prompt)
    \/ ChannelSelect(WsClose)

ChannelNext == ChannelRuns \/ ChannelClient

ChannelSpec == ChannelInit /\ [][ChannelNext]_vars

(***************************************************************************)
(* The SSE handler (llmd.rs 241-307): one complete() on a blocking task,   *)
(* one spawned task per fragment that sends it on tx, and the stream that  *)
(* is built once complete() has returned.                                  *)
(***************************************************************************)
\* mpsc::channel(32), scaled to the generations of this model
SseCapacity == 1

SseTasks ==
    { [prefix |-> <<>>, postfix |-> <<>>, bias_prompt |-> <<>>, biaser |-> <<>>,
       stop_sequences |-> <<>>, private_tokens |-> <<>>,
       max_tokens |-> <<MaxTokensBound>>, memorization |-> <<>>] }

SsePrompts == {<<>>, <<"a">>, <<"?">>, LongPrompt}

\* state.backend.start(...): the request has not reached complete() yet
SseInit ==
    /\ model_bos \in BOOLEAN
    /\ task_config \in SseTasks
    /\ memory = <<>>
    /\ SessionInit

sse_frame ==
    << transport_vars, found, hora_vars, parallel_vars, worker_vars,
       channel_vars >>

\* spawn_blocking: session.complete(&prompt, ...)
SseComplete(prompt) ==
    /\ sse = "generating"
    /\ calls = 0
    /\ Complete(prompt)
    /\ UNCHANGED << sse_vars, sse_frame >>

\* A step of complete() in which the callback is not called.
SseThread(step) ==
    /\ step
    /\ UNCHANGED << sse_vars, sse_frame >>

\* The callback: rx is there and active is set, so a task that sends the
\* fragment is spawned and the reply is Continue.
SseCallback ==
    /\ sse = "generating"
    /\ EmitContinue
    /\ spawned' = spawned \cup {Len(delivered) + 1}
    /\ UNCHANGED << sse, sse_rx, yielded, sse_frame >>

\* SseSend of the oldest task only: the tasks run in the order they were
\* spawned.
SseSendInSpawnOrder(i) ==
    /\ i \in spawned
    /\ \A j \in spawned : i <= j
    /\ sse \in {"generating", "streaming"}
    /\ Len(sse_rx) < SseCapacity
    /\ sse_rx' = Append(sse_rx, i)
    /\ spawned' = spawned \ {i}
    /\ UNCHANGED << session_vars, sse, yielded, sse_frame >>

\* The task of fragment i runs: tx.send(t).await, once the channel has room
SseSend(i) ==
    /\ i \in spawned
    /\ sse \in {"generating", "streaming"}
    /\ Len(sse_rx) < SseCapacity
    /\ sse_rx' = Append(sse_rx, i)
    /\ spawned' = spawned \ {i}
    /\ UNCHANGED << session_vars, sse, yielded, sse_frame >>

\* .await.unwrap()?: complete() returned Ok and the stream is built, or it
\* returned an error, which is the handler's result, and rx is dropped (the
\* errors of the tasks of this model come before the first fragment, so no
\* send task is left behind)
SseReturn ==
    /\ sse = "generating"
    /\ pc = "done"
    /\ IF result = "Ok"
       THEN sse' = "streaming" /\ UNCHANGED sse_rx
       ELSE sse' = "failed" /\ sse_rx' = <<>>
    /\ UNCHANGED << session_vars, spawned, yielded, sse_frame >>

\* rx.recv() yields Some(token): an event with the fragment is yielded
SseYield ==
    /\ sse = "streaming"
    /\ sse_rx # <<>>
    /\ yielded' = Append(yielded, Head(sse_rx))
    /\ sse_rx' = Tail(sse_rx)
    /\ UNCHANGED << session_vars, sse, spawned, sse_frame >>

\* rx.recv() yields None: every sender is gone and the channel is empty
SseEnd ==
    /\ sse = "streaming"
    /\ sse_rx = <<>>
    /\ spawned = {}
    /\ sse' = "ended"
    /\ UNCHANGED << session_vars, spawned, sse_rx, yielded, sse_frame >>

SseNext ==
    \/ \E prompt \in SsePrompts : SseComplete(prompt)
    \/ SseThread(ReminderPrompt)
    \/ SseThread(AssembleFail)
    \/ SseThread(FeedInitialPromptFail)
    \/ SseThread(FeedInitialPrompt)
    \/ SseThread(\E t \in SampleTokens : SampleToken(t))
    \/ SseThread(SampleEot)
    \/ SseThread(SampleFail)
    \/ SseThread(EmitNothing)
    \/ SseCallback
    \/ SseThread(BackendStatsAdd)
    \/ \E i \in spawned : SseSend(i)
    \/ SseReturn
    \/ SseYield
    \/ SseEnd

SseSpec == SseInit /\ [][SseNext]_vars

(***************************************************************************)
(* Properties.                                                             *)
(***************************************************************************)
RECURSIVE Concat(_)
\* The text made of the fragments, in order.
Concat(fragments) ==
    IF fragments = <<>> THEN <<>> ELSE Head(fragments) \o Concat(Tail(fragments))

IsSuffix(s, t) == Len(s) <= Len(t) /\ SubSeq(t, Len(t) - Len(s) + 1, Len(t)) = s

\* C1: over a complete() that returns Ok, the growth of the KV-cache equals
\* the number of assembled prompt tokens, plus the bias-prompt tokens fed,
\* plus the forced tokens taken, plus the tokens sampled (warm-up included).
C1_FedTokensMatchCache ==
    result = "Ok" =>
        n_past - obs.kvStart
            = obs.assembled + obs.biasFed + obs.forcedTaken + obs.sampled

\* A call with a warm-up, a bias prompt, a forced and a sampled token.
C1_Witness ==
    /\ result = "Ok"
    /\ task_config.bias_prompt # <<>>
    /\ obs.assembled > 0
    /\ obs.biasFed > 0
    /\ obs.forcedTaken > 0
    /\ obs.sampled > 0

\* The step that takes a forced token: no sampling, no delivery; end of
\* text leaves the loop with nothing fed, any other token is fed (or the
\* feed fails and the call ends).
C2_ForcedStep ==
    (pc = "loop" /\ OnlyOnePossible) =>
        /\ obs'.sampled = obs.sampled
        /\ delivered' = delivered
        /\ IF only_possible_token = EotToken
           THEN n_past' = n_past /\ pc' = "epilogue"
           ELSE \/ /\ pc' = "emit"
                   /\ n_past' = n_past + 1
                   /\ out_token_id' = only_possible_token
                \/ /\ pc' = "done"
                   /\ result' = "Model"
                   /\ n_past' = n_past

\* A loop of one forced token X and then a forced end of text.
C2_Scenario ==
    (obs.exit = "eot_forced" /\ obs.forcedTaken = 1 /\ obs.loopSampled = 0) =>
        /\ delivered = << Token(obs.lastForced) >>
        /\ n_past = obs.kvLoopStart + 1

\* C2: when the filtered bias list has exactly one entry and its bias is
\* positive, the sampler does not run in that iteration; a forced token other
\* than end of text is fed (the KV-cache grows by one) before its text is
\* delivered, a forced end of text ends the loop with nothing sampled or fed;
\* and a biaser forcing X and then end of text yields exactly one callback,
\* with the text of X, and a KV-cache one longer than after the prompt.
C2_ForcedTokenShortcut == [][C2_ForcedStep]_vars /\ []C2_Scenario

C2_Witness ==
    /\ obs.exit = "eot_forced"
    /\ obs.forcedTaken = 1
    /\ obs.loopSampled = 0
    /\ delivered = << <<"b">> >>
    /\ result = "Ok"

\* C3: with a biaser, every token chosen in the loop is one the biaser listed
\* with a positive bias at that step, and the output of a run that ended on
\* end of text is a prefix of a text the schema accepts.
C3_ChosenTokensListed ==
    task_config.biaser # <<>> =>
        /\ ~obs.offList
        /\ obs.exit \in {"eot_forced", "eot_sampled"} =>
              \E t \in SchemaTexts : IsPrefix(Concat(delivered), t)

\* C4: when the loop ended on a stop-sequence match, the delivered text ends
\* with a stop sequence and no shorter prefix of it ends with one.
C4_StopSequenceSuffix ==
    obs.exit = "stop" =>
        LET out == Concat(delivered)
            stops == task_config.stop_sequences
        IN  /\ \E k \in 1 .. Len(stops) : IsSuffix(stops[k], out)
            /\ \A n \in 0 .. (Len(out) - 1) :
                   \A k \in 1 .. Len(stops) : ~IsSuffix(stops[k], SubSeq(out, 1, n))

C5_NoPrivateDelivered ==
    \A i \in 1 .. Len(delivered) :
        ~Contains(task_config.private_tokens, delivered[i])

\* The step that releases a fragment equal to a private token.
C5_SuppressedStep ==
    (pc = "emit" /\ Pushed.some /\ Contains(task_config.private_tokens, Pushed.output)) =>
        /\ delivered' = delivered
        /\ biaser' = BiaserAdvance(task_config.biaser, biaser, out_token_id)
        /\ stop_sequences # <<>> => stop_sequences' = << Advanced.state >>

\* C5: no fragment delivered to the callback equals a private token; a
\* suppressed fragment still advances the biaser and the stop-sequence
\* matcher and invokes no callback.
C5_PrivateFragmentsSuppressed == [][C5_SuppressedStep]_vars /\ []C5_NoPrivateDelivered

C5_Witness ==
    /\ obs.suppressed > 0
    /\ delivered # <<>>
    /\ stop_sequences # <<>>
    /\ \E k \in 1 .. Len(stop_sequences[1]) : stop_sequences[1][k] > 0

\* The user prompt tokenizes to a list that holds a private token id.
UserHasPrivate ==
    /\ Tokenizable(request)
    /\ \E i \in 1 .. Len(request) : TokenIdOf(<<request[i]>>) \in PrivateTokenIds

\* The call fed nothing, delivered nothing, and left stats and memory alone.
NoEffects ==
    /\ n_past = obs.kvStart
    /\ delivered = <<>>
    /\ task_stats = obs.statsStart
    /\ memory = obs.memoryStart

\* C6 as claimed: IllegalToken exactly when the user prompt holds a private
\* token, and then nothing is fed, delivered, counted or stored.
C6_IllegalTokenExactly ==
    pc = "done" =>
        /\ result = "IllegalToken" <=> UserHasPrivate
        /\ result = "IllegalToken" => NoEffects

\* Recall succeeded and the reminder and the prefix were tokenized.
ReachedUserPrompt ==
    /\ ~obs.recallFailed
    /\ reminder # <<>> => Tokenizable(reminder[1])
    /\ task_config.prefix # <<>> => Tokenizable(task_config.prefix[1])

\* C6 amended: IllegalToken exactly when recall and the tokenization of the
\* reminder and the prefix succeeded and the user prompt holds a private
\* token; then nothing is fed, delivered, counted or stored.
C6_IllegalTokenAfterRecall ==
    pc = "done" =>
        /\ result = "IllegalToken" <=> (UserHasPrivate /\ ReachedUserPrompt)
        /\ result = "IllegalToken" => NoEffects

\* A second call refused on a session with a KV-cache, stats and a memory,
\* under a prefix that itself holds the private token.
C6_Witness ==
    /\ result = "IllegalToken"
    /\ pc = "done"
    /\ n_past > 0
    /\ memory # <<>>
    /\ task_stats.updates > 0
    /\ task_config.prefix = << <<"a">> >>
    /\ task_config.private_tokens = << <<"a">> >>

\* C7: with max_tokens = 0 and no biaser the loop generates no token and
\* the callback is not invoked.
C7_ZeroMaxTokens ==
    (task_config.biaser = <<>> /\ task_config.max_tokens = <<0>>) =>
        /\ tokens_generated = 0
        /\ obs.loopSampled = 0
        /\ delivered = <<>>

\* C8: with no biaser and max_tokens = N the loop generates at most N tokens.
C8_AtMostMaxTokens ==
    (task_config.biaser = <<>> /\ task_config.max_tokens # <<>>) =>
        tokens_generated <= task_config.max_tokens[1]

\* How the loop may end under a biaser, as claimed.
BiasedExits ==
    {"none", "eot_forced", "eot_sampled", "halt", "model_error", "feed_error"}

\* C9 as claimed: under a biaser the matcher is never called and the loop
\* ends only on end of text, Halt or a model error; without a biaser every
\* released fragment goes to the matcher.
C9_BiaserDecidesEnd ==
    /\ task_config.biaser # <<>> =>
          (obs.matcherCalls = 0 /\ obs.exit \in BiasedExits)
    /\ (task_config.biaser = <<>> /\ task_config.stop_sequences # <<>>) =>
          obs.matcherCalls = obs.released

\* C9 amended: the loop also ends when the callback returns an error.
C9_BiaserDecidesEndOrCallbackError ==
    /\ task_config.biaser # <<>> =>
          (obs.matcherCalls = 0 /\ obs.exit \in BiasedExits \cup {"callback_error"})
    /\ (task_config.biaser = <<>> /\ task_config.stop_sequences # <<>>) =>
          obs.matcherCalls = obs.released

\* A biased loop that delivered the stop sequence "ab" and ran past
\* max_tokens, ending on the forced end of text.
C9_Witness ==
    /\ task_config.biaser # <<>>
    /\ task_config.stop_sequences = << <<"a", "b">> >>
    /\ task_config.max_tokens = <<1>>
    /\ Concat(delivered) = <<"a", "b">>
    /\ tokens_generated = 3
    /\ obs.exit = "eot_forced"

\* C10: a model error after the loop has started does not make complete()
\* return it; the stats are added once and complete() goes on to remember.
C10_LoopErrorsEndQuietly ==
    (pc = "done" /\ obs.exit \in {"model_error", "feed_error"}) =>
        /\ result \in {"Ok", "Memory"}
        /\ task_stats.updates = obs.statsStart.updates + 1

\* The call ended with an error raised before the stats update.
FailedBeforeEpilogue ==
    /\ pc = "done"
    /\ result \in {"Tokenization", "IllegalToken", "Model", "Callback", "Memory"}
    /\ result = "Memory" => obs.recallFailed

\* A step at which tokenization, a prelude or warm-up feed, or recall fails
\* ends the call with that error; once the call has ended no fragment is
\* delivered.
C11_FailStep ==
    /\ (pc = "assemble" /\ AssemblePrompt.error # "none") =>
          (pc' = "done" /\ result' = AssemblePrompt.error)
    /\ (pc = "assemble" /\ AssemblePrompt.error = "none"
           /\ ~FeedPromptFits(n_past, AssemblePrompt.tokens)) =>
          (pc' = "done" /\ result' = "Model")
    /\ (pc = "warmup" /\ WarmupMore /\ ~InferFits(n_past)) =>
          (pc' = "done" /\ result' = "Model")
    /\ (pc = "biasfeed" /\ ~FeedPromptFits(n_past, BiasPromptTokens)) =>
          (pc' = "done" /\ result' = "Model")
    /\ (obs'.recallFailed /\ ~obs.recallFailed) =>
          (pc' = "done" /\ result' = "Memory")
    /\ pc = "done" => delivered' = delivered

\* A call that failed before the epilogue left the stats accumulator and
\* the memory store as they were when it started.
C11_FailedCallLeavesNoTrace ==
    FailedBeforeEpilogue =>
        /\ task_stats = obs.statsStart
        /\ memory = obs.memoryStart

\* C11: a failed tokenization, a failed model feed in the prelude or the
\* warm-up and a failed recall make complete() return an error; after an
\* error raised before the epilogue the callback is not invoked again, the
\* stats accumulator is unchanged by the call and the call stored nothing.
C11_EarlyErrorsAbort == [][C11_FailStep]_vars /\ []C11_FailedCallLeavesNoTrace

\* A second call whose prelude feed fails on a session that already has
\* stats and a stored prompt.
C11_Witness ==
    /\ FailedBeforeEpilogue
    /\ result = "Model"
    /\ obs.exit = "none"
    /\ obs.statsStart.updates > 0
    /\ memory # <<>>

\* The step in which the callback answers Halt leaves the loop without a
\* model step; from then on the call feeds, samples and delivers nothing.
C12_HaltStep ==
    /\ (pc = "emit" /\ obs'.exit = "halt") =>
          (pc' = "epilogue" /\ n_past' = n_past)
    /\ (obs.exit = "halt" /\ obs'.exit = "halt") =>
          /\ n_past' = n_past
          /\ delivered' = delivered
          /\ completion_stats' = completion_stats

\* How complete() ends after the loop was left normally: the stats of the
\* call are added once, and the prompt is stored when store_prompts is set;
\* the result is Ok unless that store fails.
EndsNormally ==
    /\ task_stats.updates = obs.statsStart.updates + 1
    /\ task_stats.prompt_tokens
          = obs.statsStart.prompt_tokens + completion_stats.prompt_tokens
    /\ task_stats.predict_tokens
          = obs.statsStart.predict_tokens + completion_stats.predict_tokens
    /\ IF StorePrompts
       THEN \/ /\ result = "Ok"
               /\ memory = MemoryStore(obs.memoryStart, request, Embedding(request))
            \/ /\ result = "Memory"
               /\ memory = obs.memoryStart
       ELSE result = "Ok" /\ memory = obs.memoryStart

C12_HaltedCallEndsNormally ==
    (pc = "done" /\ obs.exit \in {"halt", "eot_forced", "eot_sampled"}) =>
        EndsNormally

\* C12: a Halt from the callback ends the loop in that iteration with no
\* further model step and no further callback; complete() then adds the
\* stats and stores the prompt and returns Ok, as it does after end of text.
C12_HaltIsNormalTermination == [][C12_HaltStep]_vars /\ []C12_HaltedCallEndsNormally

\* A halted call that delivered a fragment, returned Ok and stored its prompt.
C12_Witness ==
    /\ pc = "done"
    /\ obs.exit = "halt"
    /\ result = "Ok"
    /\ StorePrompts
    /\ Len(delivered) = 1
    /\ Len(memory) = Len(obs.memoryStart) + 1
    /\ task_stats.predict_tokens > obs.statsStart.predict_tokens

\* With the socket task gone, the step that has a fragment to deliver is the
\* callback answering Halt: the loop is left in that step.
C13_HaltStep ==
    (socket = "closed" /\ pc = "emit" /\ Delivers) =>
        (pc' = "epilogue" /\ obs'.exit = "halt")

\* The socket task ended while a complete() was running: no prompt is taken
\* from rx_prompt afterwards.
C13_NoLaterPrompt ==
    (gone # <<>> /\ gone[1].busy) => calls = gone[1].calls

C14_CallbackStep ==
    delivered' # delivered =>
        \/ /\ pc = "emit"
           /\ out_token_id # EotToken
           /\ Pushed.some
           /\ delivered' = Append(delivered, Pushed.output)
        \/ /\ pc = "idle"
           /\ delivered' = <<>>

\* Before the loop starts the call has delivered nothing.
C14_NothingBeforeLoop ==
    pc \in {"recall", "assemble", "warmup", "biasfeed"} => delivered = <<>>

\* C14: the callback is invoked only from the Generate loop and only with
\* the text of an inferred token: not during the prelude feed, not for
\* warm-up tokens, not for the bias-prompt or forced-token feeds, and not
\* for end of text.
C14_CallbackOnlyInferredTokens ==
    [][C14_CallbackStep]_vars /\ []C14_NothingBeforeLoop

\* A call with warm-up tokens, a fed bias prompt and a fed forced token that
\* delivered exactly the text of the forced token.
C14_Witness ==
    /\ obs.sampled > obs.loopSampled
    /\ obs.biasFed > 0
    /\ obs.forcedTaken = 1
    /\ delivered = << Token(obs.lastForced) >>
    /\ n_past - obs.kvStart > 1

\* The fragments of the running call that are tokenized, in order; the user
\* prompt is always one of them.
Fragments ==
    reminder \o task_config.prefix \o << request >> \o task_config.postfix

RECURSIVE TokensOf(_)
\* The tokens of the fragments without any BOS marker.
TokensOf(fragments) ==
    IF fragments = <<>>
    THEN <<>>
    ELSE Tokenize(Head(fragments), FALSE) \o TokensOf(Tail(fragments))

\* The prompt assembled for the running call: BOS, when the model defines
\* one and the session has fed nothing yet, once and at the head; then the
\* tokens of the fragments.
C15_BosAtHead ==
    (pc = "assemble" /\ AssemblePrompt.error = "none") =>
        AssemblePrompt.tokens
            = (IF model_bos /\ n_past = 0 THEN <<BotToken>> ELSE <<>>)
                  \o TokensOf(Fragments)

\* C15 as claimed: BOS is in the assembled prompt iff the model defines one
\* and the session's prior-token count is zero, once and at the head of the
\* first fragment that yields tokens; and after a call whose assembled
\* prompt carried a BOS no later call carries one.
C15_BosOncePerSession ==
    /\ C15_BosAtHead
    /\ (pc = "assemble" /\ AssemblePrompt.error = "none" /\ obs.bosBefore) =>
          ~Contains(AssemblePrompt.tokens, BotToken)

\* C15 amended: no later call carries a BOS once the session has fed a token.
C15_BosOncePerFedSession ==
    /\ C15_BosAtHead
    /\ (pc = "assemble" /\ AssemblePrompt.error = "none" /\ n_past > 0) =>
          ~Contains(AssemblePrompt.tokens, BotToken)

\* A second call with an empty user prompt and a postfix, on a session
\* whose first call fed a BOS: its prompt is the postfix alone.
C15_Witness ==
    /\ pc = "assemble"
    /\ calls = 2
    /\ obs.bosBefore
    /\ n_past > 0
    /\ request = <<>>
    /\ reminder = <<>>
    /\ task_config.prefix = <<>>
    /\ AssemblePrompt.tokens = << TokenIdOf(<<"b">>) >>

\* No step shortens the KV-cache; and when a fragment is delivered, every
\* token the loop has chosen so far, the one the fragment comes from
\* included, is already in the KV-cache.
C16_Step ==
    /\ n_past' >= n_past
    /\ (delivered' # delivered /\ delivered' # <<>>) =>
          /\ tokens_generated > 0
          /\ n_past = obs.kvLoopStart + tokens_generated
          /\ Len(delivered') <= tokens_generated

\* C16: over any sequence of complete() calls the KV-cache length never
\* decreases, and every fragment delivered to the callback comes from a
\* token that was fed into the model before the delivery.
C16_FedBeforeDelivered == [][C16_Step]_vars

\* A second call that delivered the text of a sampled and of a forced token.
C16_Witness ==
    /\ calls = 2
    /\ Len(delivered) = 2
    /\ obs.forcedTaken = 1
    /\ obs.loopSampled = 1
    /\ n_past = obs.kvLoopStart + 2

\* The step that feeds the prelude feeds, on top of what the session held
\* when the call began, the tokens of reminder, prefix, user prompt and
\* postfix in that order (after a BOS on a session that has fed nothing),
\* all at once and with no token generated yet; and no token is generated
\* while the call is still before that step.
C17_PreludeStep ==
    /\ (pc = "assemble" /\ pc' \in {"warmup", "loop"}) =>
          /\ tokens' = (IF model_bos /\ n_past = 0 THEN <<BotToken>> ELSE <<>>)
                            \o TokensOf(Fragments)
          /\ n_past = obs.kvStart
          /\ n_past' = n_past + Len(tokens')
          /\ obs.sampled = 0
          /\ obs.forcedTaken = 0
    /\ (pc \in {"recall", "assemble"}) =>
          /\ obs'.sampled = obs.sampled
          /\ obs'.forcedTaken = obs.forcedTaken

\* The reminder that is assembled: with retrieve = k > 0 the k texts of the
\* store nearest to the request, joined by newline; none otherwise.
C17_ReminderRecalled ==
    (pc = "assemble") =>
        reminder =
            IF Retrieve > 0
            THEN << Join(MemoryGet(memory, Embedding(request), Retrieve),
                         <<"nl">>) >>
            ELSE <<>>

\* C17: the prompt tokens are assembled and fed in the fixed order reminder
\* (if any), prefix, user prompt, postfix, in a single prelude feed before
\* any token is generated; with retrieve = k > 0 the reminder is the top-k
\* recalled texts joined by newline, and it is fed before the prefix.
C17_PromptOrder == [][C17_PreludeStep]_vars /\ []C17_ReminderRecalled

\* A call whose prelude has just been fed with a recalled reminder, a
\* prefix, a user prompt and a postfix, one token each.
C17_Witness ==
    /\ pc = "loop"
    /\ obs.sampled = 0
    /\ obs.forcedTaken = 0
    /\ Retrieve = 1
    /\ reminder = << <<"S">> >>
    /\ task_config.prefix = << <<"a">> >>
    /\ request = <<"S">>
    /\ task_config.postfix = << <<"b">> >>
    /\ tokens = << TokenIdOf(<<"S">>), TokenIdOf(<<"a">>),
                   TokenIdOf(<<"S">>), TokenIdOf(<<"b">>) >>
    /\ n_past = 4

\* A call of a task that has retrieve 0 or unset, or of a session without a
\* memory store, that is past its recall has no reminder, has not queried
\* the store and has not failed in the recall.
C18_NoRecall ==
    (pc \notin {"idle", "recall"} /\ (Retrieve = 0 \/ ~MemoryConfigured)) =>
        /\ reminder = <<>>
        /\ ~obs.queried
        /\ ~obs.recallFailed

\* The recall of such a call goes on to the assembly and touches neither
\* the store nor the result of the call.
C18_RecallStep ==
    (pc = "recall" /\ (Retrieve = 0 \/ ~MemoryConfigured)) =>
        /\ pc' = "assemble"
        /\ result' = result
        /\ memory' = memory

C19_Stored ==
    Append(obs.memoryStart,
           [text |-> request, embedding |-> Embedding(request)])

\* The store changes only by the insertion of the prompt text and its
\* embedding, for a task with store_prompts, after the loop has ended and
\* the stats of the call have been added, as the last step of a call that
\* returns Ok; a memorization that does not insert returns a Memory error.
C19_RememberStep ==
    /\ (memory' # memory) =>
          /\ StorePrompts
          /\ pc = "remember"
          /\ obs.exit # "none"
          /\ task_stats.updates = obs.statsStart.updates + 1
          /\ memory = obs.memoryStart
          /\ memory' = C19_Stored
          /\ pc' = "done"
          /\ result' = "Ok"
    /\ (pc = "remember" /\ memory' = memory) =>
          /\ pc' = "done"
          /\ result' = "Memory"

\* Until its memorization a call sees the store as it was when the call
\* began, its recall included; a call that returned Ok has inserted its
\* prompt exactly once if the task has store_prompts, and any other call
\* has inserted nothing.
C19_StoredOnce ==
    /\ (pc \notin {"idle", "done"}) => memory = obs.memoryStart
    /\ (pc \notin {"idle", "recall"} /\ Retrieve > 0 /\ ~obs.recallFailed) =>
          reminder = << Join(MemoryGet(obs.memoryStart, Embedding(request),
                                       Retrieve), <<"nl">>) >>
    /\ (pc = "done") =>
          memory = IF StorePrompts /\ result = "Ok"
                   THEN C19_Stored
                   ELSE obs.memoryStart
    /\ (pc = "remember") => (StorePrompts /\ obs.exit # "none")

C20_NearestOf(index, e, texts) ==
    \E pick \in [1 .. Len(texts) -> 1 .. Len(index)] :
        /\ \A i, j \in 1 .. Len(texts) : i # j => pick[i] # pick[j]
        /\ \A i \in 1 .. Len(texts) : index[pick[i]].text = texts[i]
        /\ \A i, j \in 1 .. Len(texts) :
              i < j => Distance(index[pick[i]].embedding, e)
                          <= Distance(index[pick[j]].embedding, e)
        /\ \A i \in 1 .. Len(texts) :
              \A m \in (1 .. Len(index)) \ {pick[j] : j \in 1 .. Len(texts)} :
                  Distance(index[pick[i]].embedding, e)
                      <= Distance(index[m].embedding, e)

\* get(e, k) returns k stored texts, or all of them when fewer are stored:
\* the nearest to e, in ascending distance.
C20_KNearestAscending ==
    (found # <<>>) =>
        /\ Len(found[1].texts)
              = (IF found[1].top_n <= Len(memory) THEN found[1].top_n
                                                  ELSE Len(memory))
        /\ C20_NearestOf(memory, found[1].embedding, found[1].texts)

\* get(e, k) with k >= 1 right after store(text, e) returns text first.
C20_StoredComesFirst ==
    (/\ found # <<>>
     /\ memory # <<>>
     /\ found[1].top_n >= 1
     /\ found[1].embedding = memory[Len(memory)].embedding) =>
        found[1].texts[1] = memory[Len(memory)].text

\* C20: after any sequence of store calls, get(e, k) returns at most k of
\* the stored texts, namely the k nearest to e in ascending (Euclidean)
\* distance; in particular after store(text, e), get(e, k) with k >= 1
\* returns a list whose first element is text.
C20_StoreContract == C20_KNearestAscending /\ C20_StoredComesFirst

\* The calls that are between taking the guard and dropping it.
C21_Guarded == {"add", "build", "stored", "search", "got"}

\* A client inside store or get holds the lock, so no two are inside at once.
C21_OneInside ==
    \A c \in ClientIds : client[c].pc \in C21_Guarded => mutex = c

\* Every store that returned Ok is in the index, in the order of the
\* returns; beyond them the index holds at most the item of the one store
\* that is running.
C21_Retained ==
    /\ Len(completed) <= Len(memory)
    /\ completed = SubSeq(memory, 1, Len(completed))
    /\ Len(memory) <= Len(completed) + 1

\* What a get returns is what the store answers after some prefix of the
\* completed stores.
C21_GetSeesPrefix ==
    \A c \in ClientIds :
        client[c].pc = "got" =>
            \E n \in 0 .. Len(completed) :
                client[c].texts
                    = MemoryGet(SubSeq(completed, 1, n), client[c].embedding,
                                client[c].top_n)

\* C21: the shared memory store has serializable semantics under concurrent
\* sessions: for any interleaving of store and get calls from different
\* sessions every store that returned Ok is retained, and every get
\* observes the store as it was after some prefix of the completed stores,
\* never a partially inserted item.
C21_StoreSerializable == C21_OneInside /\ C21_Retained /\ C21_GetSeesPrefix

\* One session has its answer from the store, of two texts, while the
\* other waits for the lock with a third text to store.
C21_Witness ==
    /\ client[1].pc = "got"
    /\ Len(client[1].texts) = 2
    /\ mutex = 1
    /\ client[2].pc = "store_lock"
    /\ Len(completed) = Len(client[1].texts)

RECURSIVE C22_Total(_)
\* The counters after the adds of log, from zero.
C22_Total(log) ==
    IF log = <<>>
    THEN [prompt_tokens |-> 0, predict_tokens |-> 0, updates |-> 0]
    ELSE LET rest == C22_Total(SubSeq(log, 1, Len(log) - 1))
             last == log[Len(log)]
         IN  [prompt_tokens |-> rest.prompt_tokens + last.prompt_tokens,
              predict_tokens |-> rest.predict_tokens + last.predict_tokens,
              updates |-> rest.updates + 1]

\* Whether the call of session s has finished its generation and is past
\* the stats update.
C22_Finished(s) ==
    /\ SessionState(s).pc \in {"remember", "done"}
    /\ SessionState(s).obs.exit # "none"

RECURSIVE C22_SumFinished(_)
\* The stats of the finished calls of sessions 1 .. n, added up.
C22_SumFinished(n) ==
    IF n = 0
    THEN [prompt_tokens |-> 0, predict_tokens |-> 0, updates |-> 0]
    ELSE LET rest == C22_SumFinished(n - 1)
             mine == SessionState(n).completion_stats
         IN  IF C22_Finished(n)
             THEN [prompt_tokens |-> rest.prompt_tokens + mine.prompt_tokens,
                   predict_tokens |-> rest.predict_tokens + mine.predict_tokens,
                   updates |-> rest.updates + 1]
             ELSE rest

\* No step lowers a counter; the counters change only in the step after
\* the generation of the stepping session's call, by the stats of that
\* call, and that step always changes them.
C22_AddStep ==
    /\ task_stats'.prompt_tokens >= task_stats.prompt_tokens
    /\ task_stats'.predict_tokens >= task_stats.predict_tokens
    /\ task_stats'.updates >= task_stats.updates
    /\ (task_stats' # task_stats) =>
          /\ running' = running
          /\ pc = "epilogue"
          /\ obs.exit # "none"
          /\ task_stats'.prompt_tokens
                = task_stats.prompt_tokens + completion_stats.prompt_tokens
          /\ task_stats'.predict_tokens
                = task_stats.predict_tokens + completion_stats.predict_tokens
    /\ (running' = running /\ pc = "epilogue" /\ pc' # "epilogue") =>
          task_stats'.updates = task_stats.updates + 1

\* The counters are the sum of the stats of the calls whose generation has
\* finished, whatever the interleaving; the reader has the counters as they
\* were after some number of whole adds.
C22_NoLostUpdate ==
    /\ task_stats = C22_SumFinished(ParallelSessions)
    /\ task_stats = C22_Total(stats_log)
    /\ (snapshot # <<>>) =>
          \E n \in 0 .. Len(stats_log) :
              snapshot[1] = C22_Total(SubSeq(stats_log, 1, n))

\* C22: the per-task counters of the shared stats accumulator never
\* decrease; they are updated exactly once per complete() call whose
\* generation finished, and after any interleaving of concurrent sessions
\* they equal the sum of the stats of those calls (no lost update); a
\* reader of the stats sees a value produced by a whole number of completed
\* updates.
C22_StatsAdditive == [][C22_AddStep]_vars /\ []C22_NoLostUpdate

\* Both sessions have finished a call that fed and predicted tokens; the
\* reader read the counters between the two adds.
C22_Witness ==
    /\ C22_Finished(1)
    /\ C22_Finished(2)
    /\ task_stats.updates = 2
    /\ task_stats.predict_tokens = 2
    /\ task_stats.prompt_tokens > 2
    /\ snapshot # <<>>
    /\ snapshot[1].updates = 1

\* What a call delivers on a session that runs alone on an empty store,
\* from its prompt and the token its sampler draws.
C23_AloneDelivers(prompt, seed) ==
    IF ~Tokenizable(prompt) THEN <<>>
    ELSE IF ~FeedPromptFits(0, Tokenize(prompt, FALSE)) THEN <<>>
    ELSE IF ~InferFits(Len(Tokenize(prompt, FALSE))) THEN <<>>
    ELSE IF seed = EotToken THEN <<>>
    ELSE IF BufferPush(<<>>, Token(seed)).some
         THEN << BufferPush(<<>>, Token(seed)).output >>
         ELSE <<>>

\* The reminder of a call on a session that runs alone on an empty store.
C23_AloneReminder == IF Retrieve > 0 THEN << <<>> >> ELSE <<>>

\* A step changes the KV-cache and the biaser state of no session but the
\* one that takes it.
C23_OwnStateStep ==
    \A s \in SessionIds :
        (s # running \/ running' # running) =>
            /\ SessionState(s)'.n_past = SessionState(s).n_past
            /\ SessionState(s)'.biaser = SessionState(s).biaser

C24_SessionStep ==
    /\ Local' # Local =>
          \/ holder = "task" /\ holder' = "task"
          \/ holder = "worker" /\ Len(commands') < Len(commands)
          \/ holder = "returned" /\ holder' = "worker"
                /\ [Local EXCEPT !.pc = "idle"] = Local'
    /\ n_past' < n_past =>
          /\ holder = "worker"
          /\ commands # <<>> /\ Head(commands).kind = "Reset"
    /\ (holder = "worker" /\ holder' = "task") =>
          /\ n_past' = n_past
          /\ obs'.kvStart = n_past
          /\ request' = Head(commands).prompt

\* A command is read only with no generation under way, and in the order of
\* arrival; a Reset leaves a fresh session.
C24_CommandStep ==
    Len(commands') < Len(commands) =>
        /\ holder = "worker"
        /\ pc = "idle"
        /\ commands' = Tail(commands)
        /\ Head(commands).kind = "Reset" =>
              Local' = FreshSession /\ n_past' = 0 /\ holder' = "worker"
        /\ Head(commands).kind = "Prompt" => holder' = "task"

\* With the session in the hands of the worker no call is under way.
C24_HeldByOne ==
    /\ holder \in {"worker", "task", "returned"}
    /\ holder = "worker" => pc = "idle" /\ prx = <<>>
    /\ holder = "returned" => pc = "done" /\ result # "none"
    /\ pc \notin {"idle", "done"} => holder = "task"

\* C24: the session is held by the worker or by the blocking task of one
\* prompt, never both; the task gives it back whatever complete() returned;
\* the next prompt starts on the KV-cache the last one left; only a Reset
\* gives a fresh session with no prior token; a command that arrives during
\* a generation is read after the session is back.
C24_SessionOwnership ==
    /\ [][C24_SessionStep /\ C24_CommandStep]_vars
    /\ []C24_HeldByOne
    /\ (holder = "task") ~> (holder = "worker")

\* A second prompt on the cache of the first has failed, the session is back
\* with its cache and a command is waiting.
C24_Witness ==
    /\ holder = "worker"
    /\ calls = 2
    /\ result = "Model"
    /\ obs.kvStart > 0
    /\ n_past = obs.kvStart
    /\ commands # <<>>

(***************************************************************************)
(* C25: the counters complete() returns.                                   *)
(***************************************************************************)
\* The tokens the call has fed through feed_prompt: the assembled prompt,
\* the bias prompt, the forced tokens.
C25_Fed == obs.assembled + obs.biasFed + obs.forcedTaken

\* The tokens sampling has returned to the call, in the warm-up and in the
\* loop; a sampled end of text is no token returned.
C25_Sampled ==
    tokens_processed + obs.loopSampled
        - (IF obs.exit = "eot_sampled" THEN 1 ELSE 0)

C25_CountersAre(fed, sampled) ==
    /\ completion_stats.prompt_tokens = fed
    /\ completion_stats.predict_tokens = sampled
    /\ task_stats.prompt_tokens = obs.statsStart.prompt_tokens + fed
    /\ task_stats.predict_tokens = obs.statsStart.predict_tokens + sampled

\* C25: when complete() has returned Ok, its prompt_tokens counter, which is
\* what the call added to the task's total, is the number of tokens the call
\* fed through feed_prompt (assembled prompt, bias prompt, forced tokens),
\* and its predict_tokens counter is the number of tokens it obtained by
\* sampling in the warm-up and in the loop.
C25_CountersMatchTokens ==
    (pc = "done" /\ result = "Ok") => C25_CountersAre(C25_Fed, C25_Sampled)

\* The counters of the tasks that have no bias prompt are the ones of C25.
C25_CountersWithoutBiasPrompt ==
    (pc = "done" /\ result = "Ok" /\ task_config.bias_prompt = <<>>) =>
        C25_CountersAre(C25_Fed, C25_Sampled)

\* What the source adds after the bias prompt is fed: the length of the
\* assembled prompt, once more.
C25_BiasPromptCountedAsPrompt ==
    (pc = "done" /\ result = "Ok" /\ task_config.bias_prompt # <<>>) =>
        completion_stats.prompt_tokens >= 2 * obs.assembled + obs.forcedTaken

(***************************************************************************)
(* C26: what the model thread sends on the WebSocket.                      *)
(***************************************************************************)
\* The end of a cycle: the empty token.
C26_IsMarker(m) == m.ok /\ m.text = <<>>

\* What the thread has sent for call c, in order.
C26_SentOf(c) == SelectSeq(sent, LAMBDA m : m.call = c)

\* The fragments among the messages.
C26_Fragments(ms) == SelectSeq(ms, LAMBDA m : m.ok /\ m.text # <<>>)

C26_Texts(ms) == [i \in 1 .. Len(ms) |-> ms[i].text]

\* The thread takes the prompts one at a time, in the order of arrival, for
\* one session whose KV-cache it keeps; every message it sends goes to the
\* end of the channel; on an error message the socket task ends.
C26_ThreadStep ==
    /\ calls' # calls =>
          /\ pc = "idle"
          /\ calls' = calls + 1
          /\ request' = arrived[calls']
          /\ n_past' = n_past
    /\ sent' # sent =>
          /\ Len(sent') = Len(sent) + 1
          /\ SubSeq(sent', 1, Len(sent)) = sent
          /\ sent'[Len(sent')].call = calls
          /\ rx_response' = Append(rx_response,
                                   [ok |-> sent'[Len(sent')].ok,
                                    text |-> sent'[Len(sent')].text])
          /\ pc \in {"emit", "done"}
    /\ (socket = "open" /\ rx_response # <<>> /\ ~Head(rx_response).ok
            /\ rx_response' # rx_response /\ sent' = sent) =>
          socket' = "closed"

\* The messages of the calls come one call after the other; a call that is
\* over with the socket task still there has sent its delivered fragments
\* in order and then one last message, the empty token after Ok and the
\* error after Err; a call under way has sent what it delivered.
C26_SentInOrder ==
    /\ \A i, j \in 1 .. Len(sent) : i <= j => sent[i].call <= sent[j].call
    /\ \A c \in 1 .. calls :
          LET ms == C26_SentOf(c)
              over == c < calls \/ pc = "idle"
          IN  /\ \A i \in 1 .. Len(ms) :
                    (i < Len(ms) \/ ~over) => ms[i].ok /\ ms[i].text # <<>>
              /\ (c = calls /\ ~over /\ socket = "open") =>
                    C26_Texts(ms) = delivered
              /\ (c = calls /\ over /\ socket = "open") =>
                    /\ ms # <<>>
                    /\ C26_Texts(C26_Fragments(ms)) = delivered
                    /\ result = "Ok" => C26_IsMarker(ms[Len(ms)])
                    /\ result # "Ok" =>
                          ~ms[Len(ms)].ok /\ ms[Len(ms)].text = <<result>>
              /\ (over /\ ms # <<>> /\ ~C26_IsMarker(ms[Len(ms)])
                        /\ ms[Len(ms)].ok) => socket = "closed"

C27_SocketWaits ==
    /\ socket = "open"
    /\ pending # <<>>
    /\ ~(Len(rx_prompt) < PromptCapacity)

\* The model thread is inside a call, about to send, and the channel of the
\* responses is full.
C27_ThreadWaits ==
    /\ thread = "running"
    /\ pc \in {"emit", "done"}
    /\ ~ResponseRoom

\* C27: the WebSocket handler never deadlocks: whenever the socket task
\* waits for room in the channel of the prompts while the model thread is
\* about to send on the full channel of the responses, one of the two can
\* take a step.
C27_NoDeadlock ==
    (C27_SocketWaits /\ C27_ThreadWaits) => ENABLED ChannelRuns

(***************************************************************************)
(* C28: the events of the SSE stream.                                      *)
(***************************************************************************)
\* The fragments the events carry, in the order of the events.
C28_Events == [k \in 1 .. Len(yielded) |-> delivered[yielded[k]]]

\* Every fragment delivered is in one place: a task not yet run, the
\* channel, or an event; the stream ends with all of them yielded.
C28_EachFragmentOnce ==
    /\ sse \in {"generating", "streaming", "ended"} =>
          /\ \A i \in 1 .. Len(delivered) :
                Cardinality({k \in 1 .. Len(sse_rx) : sse_rx[k] = i})
                  + Cardinality({k \in 1 .. Len(yielded) : yielded[k] = i})
                  + (IF i \in spawned THEN 1 ELSE 0) = 1
          /\ spawned \subseteq 1 .. Len(delivered)
    /\ sse = "ended" => Len(yielded) = Len(delivered)

\* C28: the events of the stream carry the fragments the callback delivered,
\* each once and in generation order, whatever the order in which the send
\* tasks ran; when the stream has ended all of them have been yielded.
C28_EventsInGenerationOrder ==
    /\ C28_EachFragmentOnce
    /\ sse \in {"streaming", "ended"} =>
          C28_Events = SubSeq(delivered, 1, Len(yielded))
    /\ sse = "ended" => C28_Events = delivered

====
